---- MODULE Spec2Model ----
(***************************************************************************)
(* Model of the metrics computation engine of agile-metrics-action.        *)
(*                                                                         *)
(* DevExMetricsCollector (src/src/devex-metrics-collector.js): the file    *)
(* filter, the size aggregation, the size categories and the PR maturity   *)
(* decision procedure, together with the provider calls it makes.          *)
(* TeamMetricsCollector (src/unnamed/part_002, the revision the tests in   *)
(* src/__tests__/team-metrics-collector.test.js exercise): review times,   *)
(* aggregate statistics, size distribution and release cycle time.         *)
(* run (src/src/main.js): input validation and the order of the collectors.*)
(*                                                                         *)
(* Conventions                                                              *)
(*   - a path or a glob pattern is a sequence of one-character strings;    *)
(*   - a JavaScript null/undefined number is the value Null, a missing     *)
(*     additions/deletions count is Missing, an Invalid Date is NaN;       *)
(*   - times are minutes on the grid of TimeValues;                        *)
(*   - maturity_ratio is kept in thousandths (the code rounds it to three  *)
(*     decimals), so 1000 stands for 1.0;                                  *)
(*   - durations in hours are kept in hundredths (the code rounds them to  *)
(*     two decimals), so 150 stands for 1.5 hours.                         *)
(***************************************************************************)
EXTENDS Integers, Sequences, FiniteSets, TLC

VARIABLES options, files, totalIn, provider, prMetrics, inputs, op, result, calls

vars == <<options, files, totalIn, provider, prMetrics, inputs, op, result, calls>>

----------------------------------------------------------------------------
(* Values standing for JavaScript's undefined, null and NaN.               *)

\* `file.additions || 0`: an absent count
Missing == -1

\* maturity_ratio: null, maturity_percentage: null
Null == -999999

\* new Date(x).getTime() of a date string that does not parse
NaN == -888888

----------------------------------------------------------------------------
(* Bounds of the model.                                                    *)

\* longest list of changed files handed to the filter and the aggregators
MaxFiles == 2

\* longest commit list of a pull request
MaxCommits == 3

\* largest total_changes handed to categorizePRSize
MaxTotalChanges == 260

----------------------------------------------------------------------------
(* Sequences up to a length.                                               *)

SeqsUpTo(S, n) == UNION {[1..k -> S] : k \in 0..n}

RECURSIVE SumSeq(_)
SumSeq(s) == IF s = <<>> THEN 0 ELSE Head(s) + SumSeq(Tail(s))

----------------------------------------------------------------------------
(* Paths, glob patterns and their conversion to a regular expression.      *)

P_a_md == <<"a", ".", "m", "d">>
P_amd == <<"a", "m", "d">>
P_d_a_md == <<"d", "/", "a", ".", "m", "d">>
P_a_js == <<"a", ".", "j", "s">>

G_star_md == <<"*", ".", "m", "d">>
G_a_q_js == <<"a", "?", "j", "s">>

Paths == {P_a_md, P_amd, P_a_js}

IgnoreLists == {<<>>, <<G_star_md>>, <<G_a_q_js, G_star_md>>}

\* pattern.replace(/\*/g, '.*')
RECURSIVE ReplaceStar(_)
ReplaceStar(p) ==
    IF p = <<>> THEN <<>>
    ELSE IF Head(p) = "*" THEN <<".", "*">> \o ReplaceStar(Tail(p))
    ELSE <<Head(p)>> \o ReplaceStar(Tail(p))

\* .replace(/\?/g, '.')
RECURSIVE ReplaceQuestion(_)
ReplaceQuestion(p) ==
    IF p = <<>> THEN <<>>
    ELSE IF Head(p) = "?" THEN <<".">> \o ReplaceQuestion(Tail(p))
    ELSE <<Head(p)>> \o ReplaceQuestion(Tail(p))

regexPattern(pattern) == ReplaceQuestion(ReplaceStar(pattern))

\* one regular-expression atom against one character: '.' is any character
AtomMatches(atom, ch) == atom = "." \/ atom = ch

\* new RegExp(`^${regexPattern}$`).test(s): the whole of s against re, where an
\* atom followed by '*' matches any run of that atom
RECURSIVE RegexTest(_, _)
RegexTest(re, s) ==
    IF re = <<>> THEN s = <<>>
    ELSE IF Len(re) >= 2 /\ re[2] = "*"
         THEN \/ RegexTest(SubSeq(re, 3, Len(re)), s)
              \/ /\ s # <<>>
                 /\ AtomMatches(re[1], Head(s))
                 /\ RegexTest(re, Tail(s))
         ELSE /\ s # <<>>
              /\ AtomMatches(re[1], Head(s))
              /\ RegexTest(Tail(re), Tail(s))

\* this.options.filesToIgnore.some((pattern) => regex.test(file.filename))
shouldIgnore(opts, file) ==
    \E i \in 1..Len(opts.filesToIgnore) :
        RegexTest(regexPattern(opts.filesToIgnore[i]), file.filename)

----------------------------------------------------------------------------
(* Changed files and the filter configuration.                             *)

Statuses == {"modified", "removed"}

AdditionValues == {Missing, 0, 2}

DeletionValues == {Missing, 1}

Files == [filename : Paths, status : Statuses,
          additions : AdditionValues, deletions : DeletionValues]

FileLists == SeqsUpTo(Files, MaxFiles)

\* the constructor's options: filesToIgnore, ignoreLineDeletions, ignoreFileDeletions
Options == [filesToIgnore : IgnoreLists,
            ignoreLineDeletions : BOOLEAN,
            ignoreFileDeletions : BOOLEAN]

\* x || 0
OrZero(x) == IF x = Missing THEN 0 ELSE x

\* the callback of files.filter in filterFiles
keepFile(opts, file) ==
    IF shouldIgnore(opts, file) THEN FALSE
    ELSE IF opts.ignoreFileDeletions /\ file.status = "removed" THEN FALSE
    ELSE TRUE

filterFiles(opts, fs) ==
    IF Len(opts.filesToIgnore) = 0 THEN fs
    ELSE SelectSeq(fs, LAMBDA f : keepFile(opts, f))

RECURSIVE sumAdditions(_)
sumAdditions(fs) ==
    IF fs = <<>> THEN 0 ELSE OrZero(Head(fs).additions) + sumAdditions(Tail(fs))

RECURSIVE sumDeletions(_, _)
sumDeletions(opts, fs) ==
    IF fs = <<>> THEN 0
    ELSE (IF ~opts.ignoreLineDeletions THEN OrZero(Head(fs).deletions) ELSE 0)
         + sumDeletions(opts, Tail(fs))

\* calculateSizeDetails with the ignoreLineDeletions test lost
calculateSizeDetailsCountingDeletions(opts, fs) ==
    LET totalAdditions == sumAdditions(fs)
        totalDeletions == sumDeletions([opts EXCEPT !.ignoreLineDeletions = FALSE], fs)
    IN [total_additions |-> totalAdditions,
        total_deletions |-> totalDeletions,
        total_changes |-> totalAdditions + totalDeletions,
        files_changed |-> Len(fs),
        files_analyzed |-> Len(fs)]

calculateSizeDetails(opts, fs) ==
    LET totalAdditions == sumAdditions(fs)
        totalDeletions == sumDeletions(opts, fs)
    IN [total_additions |-> totalAdditions,
        total_deletions |-> totalDeletions,
        total_changes |-> totalAdditions + totalDeletions,
        files_changed |-> Len(fs),
        files_analyzed |-> Len(fs)]

\* what one file adds to totalChanges in the forEach of calculateDiffSize
diffContribution(opts, file) ==
    IF Len(opts.filesToIgnore) > 0 /\ shouldIgnore(opts, file) THEN 0
    ELSE IF opts.ignoreFileDeletions /\ file.status = "removed" THEN 0
    ELSE OrZero(file.additions)
         + (IF ~opts.ignoreLineDeletions THEN OrZero(file.deletions) ELSE 0)

RECURSIVE calculateDiffSize(_, _)
calculateDiffSize(opts, fs) ==
    IF fs = <<>> THEN 0
    ELSE diffContribution(opts, Head(fs)) + calculateDiffSize(opts, Tail(fs))

\* categorizePRSize with the first threshold inclusive
categorizePRSizeInclusive(total_changes) ==
    IF total_changes <= 105 THEN "s"
    ELSE IF total_changes <= 160 THEN "m"
    ELSE IF total_changes <= 240 THEN "l"
    ELSE "xl"

categorizePRSize(total_changes) ==
    IF total_changes < 105 THEN "s"
    ELSE IF total_changes <= 160 THEN "m"
    ELSE IF total_changes <= 240 THEN "l"
    ELSE "xl"

----------------------------------------------------------------------------
(* Idle values of the inputs a specification does not use.                 *)

NoOptions == [filesToIgnore |-> <<>>, ignoreLineDeletions |-> FALSE,
              ignoreFileDeletions |-> FALSE]

NoProvider == [idle |-> TRUE]

NoResult == [none |-> TRUE]

NoInputs == [idle |-> TRUE]

----------------------------------------------------------------------------
(* Specification SpecFilter: the file filter and the two aggregators, each *)
(* applied to a list of changed files under a filter configuration.        *)

InitFilter ==
    /\ options \in Options
    /\ files \in FileLists
    /\ totalIn = 0
    /\ provider = NoProvider
    /\ prMetrics = <<>>
    /\ inputs = NoInputs
    /\ op = "init"
    /\ result = NoResult
    /\ calls = <<>>

FilterFiles ==
    /\ op = "init"
    /\ op' = "filterFiles"
    /\ result' = [filtered |-> filterFiles(options, files)]
    /\ UNCHANGED <<options, files, totalIn, provider, prMetrics, inputs, calls>>

CalculateSizeDetails ==
    /\ op = "init"
    /\ op' = "calculateSizeDetails"
    /\ result' = calculateSizeDetails(options, files)
    /\ UNCHANGED <<options, files, totalIn, provider, prMetrics, inputs, calls>>

CalculateDiffSize ==
    /\ op = "init"
    /\ op' = "calculateDiffSize"
    /\ result' = [total |-> calculateDiffSize(options, files)]
    /\ UNCHANGED <<options, files, totalIn, provider, prMetrics, inputs, calls>>

NextFilter == FilterFiles \/ CalculateSizeDetails \/ CalculateDiffSize

SpecFilter == InitFilter /\ [][NextFilter]_vars

----------------------------------------------------------------------------
(* Specification SpecSize: categorizePRSize over the totals 0..MaxTotalChanges. *)

InitSize ==
    /\ options = NoOptions
    /\ files = <<>>
    /\ totalIn \in 0..MaxTotalChanges
    /\ provider = NoProvider
    /\ prMetrics = <<>>
    /\ inputs = NoInputs
    /\ op = "init"
    /\ result = NoResult
    /\ calls = <<>>

CategorizePRSize ==
    /\ op = "init"
    /\ op' = "categorizePRSize"
    /\ result' = [size |-> categorizePRSize(totalIn)]
    /\ UNCHANGED <<options, files, totalIn, provider, prMetrics, inputs, calls>>

NextSize == CategorizePRSize

SpecSize == InitSize /\ [][NextSize]_vars

----------------------------------------------------------------------------
(* Dates.  A date is a number of minutes, or NaN for an Invalid Date; every *)
(* comparison with NaN is false and every difference with NaN is NaN.      *)

\* the grace window of calculatePRMaturity, in minutes
GraceMinutes == 5

TimeValues == {-60, 5, 6, 60, NaN}

CreatedAtValues == {0, NaN}

\* (commitDate - prCreatedAt) / (1000 * 60)
MinutesBetween(a, b) == IF a = NaN \/ b = NaN THEN NaN ELSE a - b

\* Math.abs
Abs(x) == IF x = NaN THEN NaN ELSE IF x < 0 THEN 0 - x ELSE x

\* x <= y and x > y of JavaScript numbers
LessEq(x, y) == x # NaN /\ y # NaN /\ x <= y
Greater(x, y) == x # NaN /\ y # NaN /\ x > y

\* Math.round(p / q) for q > 0: the nearest integer, a half rounded up
RoundDiv(p, q) == (2 * p + q) \div (2 * q)

\* The halves k + 1/2 that the double-precision product (p / q) * 100 falls
\* short of, so that Math.round gives k: with IEEE-754 doubles
\* (29 / 200) * 100 = 14.499999999999998, (57 / 200) * 100 = 28.499999999999996,
\* (113 / 200) * 100 = 56.49999999999999 and (23 / 40) * 100 = 57.49999999999999;
\* every other half below 100 is computed exactly or from above.
PercentHalvesRoundedDown == {14, 28, 56, 57}

\* The same for (p / q) * 1000: the halves 500.5 .. 511.5 come out as
\* 500.49999999999994 .. 511.49999999999994.
ThousandthHalvesRoundedDown == 500..511

\* Math.round((p / q) * scale) in double precision, for q > 0: the quotient that
\* is not a half is rounded to the nearest integer, a half as the doubles give it
RoundScaled(p, q, scale, halvesDown) ==
    LET k == (scale * p) \div q
        isHalf == 2 * (scale * p - k * q) = q
    IN IF isHalf /\ k \in halvesDown THEN k ELSE RoundDiv(scale * p, q)

\* Math.round(maturityRatio * 100) with maturityRatio = stable / total
roundPercentage(stable, total) == RoundScaled(stable, total, 100, PercentHalvesRoundedDown)

\* Math.round(maturityRatio * 1000), the thousandths of maturity_ratio
roundThousandths(stable, total) ==
    RoundScaled(stable, total, 1000, ThousandthHalvesRoundedDown)

\* Math.max(0, x)
Max0(x) == IF x > 0 THEN x ELSE 0

----------------------------------------------------------------------------
(* The provider as calculatePRMaturity sees it: what each of the four      *)
(* calls resolves to ("ok"), whether it resolves to null, or throws.       *)

File(p, st, a, d) == [filename |-> p, status |-> st, additions |-> a, deletions |-> d]

PRFileLists ==
    { <<>>,
      <<File(P_a_js, "modified", 60, 40)>>,
      <<File(P_a_js, "modified", 50, 10)>>,
      <<File(P_a_js, "modified", 30, 10)>>,
      <<File(P_a_md, "modified", 5, 3), File(P_a_js, "removed", 0, 8)>> }

DiffFileLists ==
    { <<>>,
      <<File(P_a_js, "modified", 40, 0)>>,
      <<File(P_a_js, "modified", 2, 1)>>,
      <<File(P_a_js, "modified", 14, 3)>>,
      <<File(P_a_md, "modified", 200, 0), File(P_a_js, "removed", 0, 150)>> }

\* the commits of a pull request, in list order; the sha of a commit is its place
CommitList(ts) == [i \in 1..Len(ts) |-> [sha |-> i, date |-> ts[i]]]

CommitLists == {CommitList(ts) : ts \in SeqsUpTo(TimeValues, MaxCommits)}

PRResponses ==
    [kind : {"ok"}, created_at : CreatedAtValues]
        \cup {[kind |-> k, created_at |-> NaN] : k \in {"null", "throw"}}

CommitsResponses ==
    [kind : {"ok"}, list : CommitLists]
        \cup {[kind |-> k, list |-> <<>>] : k \in {"null", "throw"}}

FilesResponses ==
    [kind : {"ok"}, list : PRFileLists]
        \cup {[kind |-> k, list |-> <<>>] : k \in {"null", "throw"}}

\* "nofiles": a comparison object without a files field
DiffResponses ==
    [kind : {"ok"}, list : DiffFileLists]
        \cup {[kind |-> k, list |-> <<>>] : k \in {"null", "throw", "nofiles"}}

Providers == [pr : PRResponses, commits : CommitsResponses,
              files : FilesResponses, diff : DiffResponses]

MaturityOptions == {o \in Options : Len(o.filesToIgnore) <= 1}

\* a call of the provider; base and head are 0 except for compareCommitsDiff
Call(name) == [name |-> name, base |-> 0, head |-> 0]
CompareCall(base, head) == [name |-> "compareCommitsDiff", base |-> base, head |-> head]

\* error.message of what a provider call throws
ThrownMessage(name) ==
    CASE name = "getPullRequest" -> "getPullRequest failed"
      [] name = "getPullRequestCommits" -> "getPullRequestCommits failed"
      [] name = "getPullRequestFiles" -> "getPullRequestFiles failed"
      [] OTHER -> "compareCommitsDiff failed"

----------------------------------------------------------------------------
(* calculatePRMaturity.  Every operator below yields the pair               *)
(* [result, calls]: what the method returns and the provider calls made.   *)

\* errorResult reporting 0 instead of null
errorResultZero(message) ==
    [maturity_ratio |-> 0, maturity_percentage |-> 0,
     details |-> [error |-> message]]

\* the error results: the three explicit ones and the one of the catch block
errorResult(message) ==
    [maturity_ratio |-> Null, maturity_percentage |-> Null,
     details |-> [error |-> message]]

\* prFiles || [] after getPullRequestFiles resolved
filesOrEmpty(prov) == IF prov.files.kind = "null" THEN <<>> ELSE prov.files.list

\* fullMaturityResult with one reason text for all three 100% rules
fullMaturityResultOneReason(opts, prov, prCommits, reason) ==
    LET sizeDetails == calculateSizeDetails(opts, filterFiles(opts, filesOrEmpty(prov)))
    IN [maturity_ratio |-> 1000,
        maturity_percentage |-> 100,
        details |-> [total_commits |-> Len(prCommits),
                     total_changes |-> sizeDetails.total_changes,
                     changes_after_publication |-> 0,
                     stable_changes |-> sizeDetails.total_changes,
                     first_commit_sha |-> prCommits[1].sha,
                     last_commit_sha |-> prCommits[Len(prCommits)].sha,
                     pr_created_at |-> prov.pr.created_at,
                     reason |-> "Single commit PR"]]

\* the result of the three 100% rules
fullMaturityResult(opts, prov, prCommits, reason) ==
    LET sizeDetails == calculateSizeDetails(opts, filterFiles(opts, filesOrEmpty(prov)))
    IN [maturity_ratio |-> 1000,
        maturity_percentage |-> 100,
        details |-> [total_commits |-> Len(prCommits),
                     total_changes |-> sizeDetails.total_changes,
                     changes_after_publication |-> 0,
                     stable_changes |-> sizeDetails.total_changes,
                     first_commit_sha |-> prCommits[1].sha,
                     last_commit_sha |-> prCommits[Len(prCommits)].sha,
                     pr_created_at |-> prov.pr.created_at,
                     reason |-> reason]]

\* a 100% rule: fetch the files, then return the result
fullMaturity(opts, prov, prCommits, reason, callsSoFar) ==
    LET cs == Append(callsSoFar, Call("getPullRequestFiles"))
    IN IF prov.files.kind = "throw"
       THEN [result |-> errorResult(ThrownMessage("getPullRequestFiles")), calls |-> cs]
       ELSE [result |-> fullMaturityResult(opts, prov, prCommits, reason), calls |-> cs]

\* withinGracePeriod with the window's end excluded
withinGracePeriodExclusive(prCreatedAt, commit) ==
    \/ Abs(MinutesBetween(commit.date, prCreatedAt)) # NaN
          /\ Abs(MinutesBetween(commit.date, prCreatedAt)) < GraceMinutes
    \/ LessEq(commit.date, prCreatedAt)

\* withinGracePeriod without the commits older than the pull request
withinGracePeriodAbsolute(prCreatedAt, commit) ==
    LessEq(Abs(MinutesBetween(commit.date, prCreatedAt)), GraceMinutes)

\* commitsWithinGracePeriod
withinGracePeriod(prCreatedAt, commit) ==
    \/ LessEq(Abs(MinutesBetween(commit.date, prCreatedAt)), GraceMinutes)
    \/ LessEq(commit.date, prCreatedAt)

\* significantCommitsAfterPR
isSignificant(prCreatedAt, commit) ==
    Greater(MinutesBetween(commit.date, prCreatedAt), GraceMinutes)

\* the index of significantCommitsAfterPR[0] in prCommits (findIndex by sha)
firstSignificantIndex(prCreatedAt, prCommits) ==
    LET first == SelectSeq(prCommits, LAMBDA c : isSignificant(prCreatedAt, c))[1]
    IN CHOOSE i \in 1..Len(prCommits) :
          /\ prCommits[i].sha = first.sha
          /\ \A j \in 1..(i - 1) : prCommits[j].sha # first.sha

\* baselineCommit
baselineIndex(prCreatedAt, prCommits) ==
    LET i == firstSignificantIndex(prCreatedAt, prCommits)
    IN IF i > 1 THEN i - 1 ELSE 1

\* stableChanges without the clamp at 0
stableChangesUnclamped(totalChanges, changesAfterPublication) ==
    totalChanges - changesAfterPublication

\* stableChanges
stableChanges(totalChanges, changesAfterPublication) ==
    Max0(totalChanges - changesAfterPublication)

\* the rule "otherwise": lines 361-448
calculatedMaturity(opts, prov, prCommits, callsSoFar) ==
    LET prCreatedAt == prov.pr.created_at
        significant == SelectSeq(prCommits, LAMBDA c : isSignificant(prCreatedAt, c))
        firstSignificantCommit == significant[1]
        lastCommit == prCommits[Len(prCommits)]
        cs1 == Append(callsSoFar, Call("getPullRequestFiles"))
        totalPRChanges == calculateSizeDetails(opts, filterFiles(opts, filesOrEmpty(prov)))
        baselineCommit == prCommits[baselineIndex(prCreatedAt, prCommits)]
        cs2 == Append(cs1, CompareCall(baselineCommit.sha, lastCommit.sha))
        diffFiles == IF prov.diff.kind = "nofiles" THEN <<>> ELSE prov.diff.list
        changesAfterPublication == calculateDiffSize(opts, diffFiles)
        stable == stableChanges(totalPRChanges.total_changes, changesAfterPublication)
        total == totalPRChanges.total_changes
    IN IF prov.files.kind = "throw"
       THEN [result |-> errorResult(ThrownMessage("getPullRequestFiles")), calls |-> cs1]
       ELSE IF prov.diff.kind = "throw"
       THEN [result |-> errorResult(ThrownMessage("compareCommitsDiff")), calls |-> cs2]
       ELSE IF prov.diff.kind = "null"
       THEN [result |-> errorResult("Could not compare commits for maturity analysis"),
             calls |-> cs2]
       ELSE [result |->
               [maturity_ratio |-> IF total > 0 THEN roundThousandths(stable, total)
                                   ELSE 1000,
                maturity_percentage |-> IF total > 0 THEN roundPercentage(stable, total)
                                        ELSE 100,
                details |-> [total_commits |-> Len(prCommits),
                             commits_after_publication |-> Len(significant),
                             total_changes |-> total,
                             changes_after_publication |-> changesAfterPublication,
                             stable_changes |-> stable,
                             first_commit_sha |-> prCommits[1].sha,
                             last_commit_sha |-> lastCommit.sha,
                             baseline_commit_sha |-> baselineCommit.sha,
                             first_significant_commit_sha |-> firstSignificantCommit.sha,
                             pr_created_at |-> prCreatedAt,
                             reason |-> "Calculated based on meaningful commits after publication"]],
             calls |-> cs2]

\* maturityRules with the single-commit rule applied only inside the grace window
maturityRulesSingleInGrace(opts, prov, callsSoFar) ==
    LET prCommits == prov.commits.list
        prCreatedAt == prov.pr.created_at
    IN IF Len(prCommits) = 1 /\ withinGracePeriod(prCreatedAt, prCommits[1])
       THEN fullMaturity(opts, prov, prCommits, "Single commit PR", callsSoFar)
       ELSE IF \A i \in 1..Len(prCommits) : withinGracePeriod(prCreatedAt, prCommits[i])
       THEN fullMaturity(opts, prov, prCommits,
                         "All commits within grace period or pre-existing", callsSoFar)
       ELSE IF \A i \in 1..Len(prCommits) : ~isSignificant(prCreatedAt, prCommits[i])
       THEN fullMaturity(opts, prov, prCommits,
                         "No significant commits after PR publication", callsSoFar)
       ELSE calculatedMaturity(opts, prov, prCommits, callsSoFar)

\* the rules over the commit list, in the order of the code: lines 266-448
maturityRules(opts, prov, callsSoFar) ==
    LET prCommits == prov.commits.list
        prCreatedAt == prov.pr.created_at
    IN IF Len(prCommits) = 1
       THEN fullMaturity(opts, prov, prCommits, "Single commit PR", callsSoFar)
       ELSE IF \A i \in 1..Len(prCommits) : withinGracePeriod(prCreatedAt, prCommits[i])
       THEN fullMaturity(opts, prov, prCommits,
                         "All commits within grace period or pre-existing", callsSoFar)
       ELSE IF \A i \in 1..Len(prCommits) : ~isSignificant(prCreatedAt, prCommits[i])
       THEN fullMaturity(opts, prov, prCommits,
                         "No significant commits after PR publication", callsSoFar)
       ELSE calculatedMaturity(opts, prov, prCommits, callsSoFar)

calculatePRMaturity(opts, prov) ==
    LET cs1 == <<Call("getPullRequest")>>
        cs2 == Append(cs1, Call("getPullRequestCommits"))
    IN IF prov.pr.kind = "throw"
       THEN [result |-> errorResult(ThrownMessage("getPullRequest")), calls |-> cs1]
       ELSE IF prov.pr.kind = "null"
       THEN [result |-> errorResult("Could not fetch PR details"), calls |-> cs1]
       ELSE IF prov.commits.kind = "throw"
       THEN [result |-> errorResult(ThrownMessage("getPullRequestCommits")), calls |-> cs2]
       ELSE IF prov.commits.kind = "null" \/ Len(prov.commits.list) = 0
       THEN [result |-> errorResult("No commits found in PR"), calls |-> cs2]
       ELSE IF prov.pr.created_at = NaN
       THEN [result |-> errorResult("Invalid time value"), calls |-> cs2]
       ELSE maturityRules(opts, prov, cs2)

----------------------------------------------------------------------------
(* Specification SpecMaturity: calculatePRMaturity against every provider.  *)

InitMaturity ==
    /\ options \in MaturityOptions
    /\ files = <<>>
    /\ totalIn = 0
    /\ provider \in Providers
    /\ prMetrics = <<>>
    /\ inputs = NoInputs
    /\ op = "init"
    /\ result = NoResult
    /\ calls = <<>>

CalculatePRMaturity ==
    /\ op = "init"
    /\ op' = "calculatePRMaturity"
    /\ LET r == calculatePRMaturity(options, provider)
       IN /\ result' = r.result
          /\ calls' = r.calls
    /\ UNCHANGED <<options, files, totalIn, provider, prMetrics, inputs>>

NextMaturity == CalculatePRMaturity

SpecMaturity == InitMaturity /\ [][NextMaturity]_vars

----------------------------------------------------------------------------
(* GitHubClient (src/src/github-client.js), the two lookups calculatePRSize *)
(* makes.  The argument is what the octokit request does: it resolves      *)
(* ("ok", "null": the data of the response) or it throws ("throw").        *)

\* GitHubClient.getPullRequest: response.data, null when the request throws
getPullRequest(request) ==
    IF request.kind = "throw" THEN [kind |-> "null", created_at |-> NaN] ELSE request

\* GitHubClient.getPullRequestFiles: response.data, [] when the request throws
getPullRequestFiles(request) ==
    IF request.kind = "throw" THEN [kind |-> "ok", list |-> <<>>] ELSE request

\* the provider the collector holds when it is a GitHubClient over the requests
GitHubClient(requests) ==
    [pr |-> getPullRequest(requests.pr), files |-> getPullRequestFiles(requests.files)]

----------------------------------------------------------------------------
(* calculatePRSize.  It yields the pair [result, calls].                    *)

\* the result of the catch block
unknownSize(message) ==
    [size |-> "unknown", category |-> "size/unknown", details |-> [error |-> message]]

\* the result for a pull request without changed files
emptySize ==
    [size |-> "xs", category |-> "size/xs",
     details |-> [total_additions |-> 0, total_deletions |-> 0, total_changes |-> 0,
                  files_changed |-> 0, files_analyzed |-> 0]]

calculatePRSize(opts, prov) ==
    LET cs1 == <<Call("getPullRequest")>>
        cs2 == Append(cs1, Call("getPullRequestFiles"))
    IN IF prov.pr.kind = "throw"
       THEN [result |-> unknownSize(ThrownMessage("getPullRequest")), calls |-> cs1]
       ELSE IF prov.files.kind = "throw"
       THEN [result |-> unknownSize(ThrownMessage("getPullRequestFiles")), calls |-> cs2]
       ELSE IF prov.files.kind = "null" \/ Len(prov.files.list) = 0
       THEN [result |-> emptySize, calls |-> cs2]
       ELSE LET sizeDetails == calculateSizeDetails(opts, filterFiles(opts, prov.files.list))
                sizeCategory == categorizePRSize(sizeDetails.total_changes)
            IN [result |-> [size |-> sizeCategory,
                            category |-> "size/" \o sizeCategory,
                            details |-> sizeDetails],
                calls |-> cs2]

----------------------------------------------------------------------------
(* Specification SpecPRSize: calculatePRSize against a provider that        *)
(* answers as drawn, and against a GitHubClient whose requests do.         *)

SizeProviders == [pr : PRResponses, files : FilesResponses]

InitPRSize ==
    /\ options \in Options
    /\ files = <<>>
    /\ totalIn = 0
    /\ provider \in SizeProviders
    /\ prMetrics = <<>>
    /\ inputs = NoInputs
    /\ op = "init"
    /\ result = NoResult
    /\ calls = <<>>

CalculatePRSize ==
    /\ op = "init"
    /\ op' = "calculatePRSize"
    /\ LET r == calculatePRSize(options, provider)
       IN /\ result' = r.result
          /\ calls' = r.calls
    /\ UNCHANGED <<options, files, totalIn, provider, prMetrics, inputs>>

CalculatePRSizeWithGitHubClient ==
    /\ op = "init"
    /\ op' = "calculatePRSize(GitHubClient)"
    /\ LET r == calculatePRSize(options, GitHubClient(provider))
       IN /\ result' = r.result
          /\ calls' = r.calls
    /\ UNCHANGED <<options, files, totalIn, provider, prMetrics, inputs>>

NextPRSize == CalculatePRSize \/ CalculatePRSizeWithGitHubClient

SpecPRSize == InitPRSize /\ [][NextPRSize]_vars

----------------------------------------------------------------------------
(* TeamMetricsCollector, the review times of one pull request.             *)
(* Times are minutes after the creation of the pull request; the timeline  *)
(* and the reviews are in the chronological order the provider lists them. *)

\* longest timeline of a pull request
MaxEvents == 2

\* Math.round((diffMs / (1000 * 60 * 60)) * 100) / 100, in hundredths of an hour
roundHours(diffMinutes) == RoundDiv(5 * diffMinutes, 3)

\* the index of the first element of s that passes Test, 0 if none does (Array.find)
FindIndex(s, Test(_)) ==
    IF \E i \in 1..Len(s) : Test(s[i])
    THEN CHOOSE i \in 1..Len(s) : Test(s[i]) /\ \A j \in 1..(i - 1) : ~Test(s[j])
    ELSE 0

Event(kind, at, type) == [event |-> kind, created_at |-> at, user |-> type]

Review(state, at, type) == [state |-> state, submitted_at |-> at, user |-> type]

EventTimes == {0, 20, 90}

EventKinds ==
    {<<"ready_for_review", "User">>, <<"labeled", "User">>}
        \cup ({"reviewed", "commented", "line-commented"} \X {"User", "Bot"})

Events == {Event(k[1], t, k[2]) : k \in EventKinds, t \in EventTimes}

Chronological(s) == \A i \in 1..(Len(s) - 1) : s[i].created_at <= s[i + 1].created_at

Timelines == {s \in SeqsUpTo(Events, MaxEvents) : Chronological(s)}

\* a review without submitted_at is a pending one
ReviewLists ==
    { <<>>,
      <<Review("APPROVED", 120, "User")>>,
      <<Review("APPROVED", 15, "User")>>,
      <<Review("COMMENTED", 60, "User"), Review("APPROVED", 120, "User")>>,
      <<Review("COMMENTED", 10, "Bot"), Review("APPROVED", 120, "User")>>,
      <<Review("COMMENTED", 10, "Bot")>>,
      <<Review("PENDING", Missing, "User"), Review("COMMENTED", 60, "User")>>,
      <<Review("APPROVED", 10, "Bot"), Review("CHANGES_REQUESTED", 60, "User"),
        Review("APPROVED", 150, "User")>> }

TimelineResponses ==
    [kind : {"ok"}, list : Timelines]
        \cup {[kind |-> k, list |-> <<>>] : k \in {"null", "throw"}}

ReviewsResponses ==
    [kind : {"ok"}, list : ReviewLists]
        \cup {[kind |-> k, list |-> <<>>] : k \in {"null", "throw"}}

\* label names, as sequences of characters
L_bug == <<"b", "u", "g">>
L_size_m == <<"s", "i", "z", "e", "/", "m">>
L_Size_XL == <<"S", "i", "z", "e", "/", "X", "L">>
L_size_xs == <<"s", "i", "z", "e", "/", "x", "s">>

LabelLists == {<<>>, <<L_bug>>, <<L_bug, L_size_m>>, <<L_Size_XL, L_size_m>>, <<L_size_xs>>}

\* pr.merged_at of a pull request that was merged
MergedAt == 300

PullRequest(number, login, draft, merged_at, labels) ==
    [number |-> number, user |-> login, draft |-> draft, created_at |-> 0,
     merged_at |-> merged_at, labels |-> labels,
     state |-> IF merged_at = Null THEN "open" ELSE "closed"]

\* open ones, merged ones, and one merged before the approvals of minute 120
PullRequests ==
    {PullRequest(1, "ann", d, Null, <<>>) : d \in BOOLEAN}
        \cup {PullRequest(1, "ann", FALSE, MergedAt, ls) : ls \in LabelLists}
        \cup {PullRequest(1, "ann", FALSE, 100, <<>>)}

\* the value of getPRSizeFromLabels when there is no size label
NullSize == <<"null">>

\* String.prototype.toLowerCase on the letters that occur in the labels
LowerChar(c) ==
    CASE c = "S" -> "s" [] c = "M" -> "m" [] c = "L" -> "l" [] c = "X" -> "x"
      [] OTHER -> c

toLowerCase(name) == [i \in 1..Len(name) |-> LowerChar(name[i])]

SizePrefix == <<"s", "i", "z", "e", "/">>

startsWith(name, prefix) ==
    Len(name) >= Len(prefix) /\ SubSeq(name, 1, Len(prefix)) = prefix

\* name.replace('size/', '') for a name that starts with 'size/'
removePrefix(name, prefix) == SubSeq(name, Len(prefix) + 1, Len(name))

getPRSizeFromLabels(labels) ==
    LET i == FindIndex(labels, LAMBDA label : startsWith(toLowerCase(label), SizePrefix))
    IN IF Len(labels) = 0 \/ i = 0 THEN NullSize
       ELSE removePrefix(toLowerCase(labels[i]), SizePrefix)

isReadyEvent(event) == event.event = "ready_for_review"

isReviewActivity(event) == event.event \in {"reviewed", "commented", "line-commented"}

\* timeline?.find(...) on a timeline that may be null
timelineOrEmpty(timeline) == IF timeline.kind = "ok" THEN timeline.list ELSE <<>>

reviewsOrEmpty(reviews) == IF reviews.kind = "ok" THEN reviews.list ELSE <<>>

getReadyForReviewTime(pr, createdAt, timeline) ==
    LET events == timelineOrEmpty(timeline)
        i == FindIndex(events, isReadyEvent)
    IN IF ~pr.draft
       THEN (IF i # 0 THEN events[i].created_at ELSE createdAt)
       ELSE (IF i # 0 THEN events[i].created_at ELSE createdAt)

\* Array.sort by submitted_at: a stable insertion of r into a sorted list
RECURSIVE insertReview(_, _)
insertReview(r, sorted) ==
    IF sorted = <<>> THEN <<r>>
    ELSE IF r.submitted_at < Head(sorted).submitted_at THEN <<r>> \o sorted
    ELSE <<Head(sorted)>> \o insertReview(r, Tail(sorted))

RECURSIVE sortBySubmittedAt(_)
sortBySubmittedAt(rs) ==
    IF rs = <<>> THEN <<>>
    ELSE insertReview(rs[Len(rs)], sortBySubmittedAt(SubSeq(rs, 1, Len(rs) - 1)))

\* the callback of reviews.filter in calculatePickupTime
isHumanSubmitted(r) == r.submitted_at # Missing /\ r.user # "Bot"

\* the callback of timeline.find in calculatePickupTime
isHumanActivity(event) == isReviewActivity(event) /\ event.user # "Bot"

\* calculatePickupTime without the two tests on the user type
calculatePickupTimeCountingBots(readyForReviewAt, timeline, reviews) ==
    LET events == timelineOrEmpty(timeline)
        c == FindIndex(events, isReviewActivity)
        sortedReviews ==
            sortBySubmittedAt(SelectSeq(reviewsOrEmpty(reviews),
                                        LAMBDA r : r.submitted_at # Missing))
        hasReview == Len(sortedReviews) > 0
        firstActivityTime ==
            IF c # 0 /\ hasReview
            THEN (IF events[c].created_at < sortedReviews[1].submitted_at
                  THEN events[c].created_at ELSE sortedReviews[1].submitted_at)
            ELSE IF c # 0 THEN events[c].created_at
            ELSE IF hasReview THEN sortedReviews[1].submitted_at
            ELSE Null
    IN IF firstActivityTime = Null THEN Null
       ELSE IF firstActivityTime - readyForReviewAt < 0 THEN Null
       ELSE roundHours(firstActivityTime - readyForReviewAt)

calculatePickupTime(readyForReviewAt, timeline, reviews) ==
    LET events == timelineOrEmpty(timeline)
        c == FindIndex(events, isHumanActivity)
        sortedReviews ==
            sortBySubmittedAt(SelectSeq(reviewsOrEmpty(reviews), isHumanSubmitted))
        hasReview == Len(sortedReviews) > 0
        firstActivityTime ==
            IF c # 0 /\ hasReview
            THEN (IF events[c].created_at < sortedReviews[1].submitted_at
                  THEN events[c].created_at ELSE sortedReviews[1].submitted_at)
            ELSE IF c # 0 THEN events[c].created_at
            ELSE IF hasReview THEN sortedReviews[1].submitted_at
            ELSE Null
    IN IF firstActivityTime = Null THEN Null
       ELSE IF firstActivityTime - readyForReviewAt < 0 THEN Null
       ELSE roundHours(firstActivityTime - readyForReviewAt)

isApproval(review) == review.state = "APPROVED"

\* calculateApproveTime measuring from the ready-for-review time only
calculateApproveTimeFromReady(readyForReviewAt, timeline, reviews) ==
    LET rs == reviewsOrEmpty(reviews)
        a == FindIndex(rs, isApproval)
    IN IF a = 0 THEN Null ELSE roundHours(rs[a].submitted_at - readyForReviewAt)

calculateApproveTime(readyForReviewAt, timeline, reviews) ==
    LET rs == reviewsOrEmpty(reviews)
        a == FindIndex(rs, isApproval)
        events == timelineOrEmpty(timeline)
        c == IF a = 0 THEN 0
             ELSE FindIndex(events,
                            LAMBDA event : isReviewActivity(event)
                                           /\ event.created_at < rs[a].submitted_at)
        startTime == IF c # 0 THEN events[c].created_at ELSE readyForReviewAt
    IN IF a = 0 THEN Null ELSE roundHours(rs[a].submitted_at - startTime)

calculateMergeTime(mergedAt, reviews) ==
    LET rs == reviewsOrEmpty(reviews)
        a == FindIndex(rs, isApproval)
    IN IF a = 0 THEN Null ELSE roundHours(mergedAt - rs[a].submitted_at)

\* what calculatePRMetrics returns from its catch block
NullMetrics == [null |-> TRUE]

IsNullMetrics(m) == "null" \in DOMAIN m

\* calculatePRMetrics; prov answers getPullRequestTimeline and getPullRequestReviews
calculatePRMetrics(pr, prov) ==
    LET cs == <<Call("getPullRequestTimeline"), Call("getPullRequestReviews")>>
        readyForReviewAt == getReadyForReviewTime(pr, pr.created_at, prov.timeline)
    IN IF prov.timeline.kind = "throw" \/ prov.reviews.kind = "throw"
       THEN [result |-> NullMetrics, calls |-> cs]
       ELSE [result |->
                [pr_number |-> pr.number,
                 author |-> pr.user,
                 state |-> pr.state,
                 merged |-> pr.merged_at # Null,
                 created_at |-> pr.created_at,
                 merged_at |-> pr.merged_at,
                 pickup_time_hours |->
                     calculatePickupTime(readyForReviewAt, prov.timeline, prov.reviews),
                 approve_time_hours |->
                     calculateApproveTime(readyForReviewAt, prov.timeline, prov.reviews),
                 merge_time_hours |->
                     IF pr.merged_at # Null
                     THEN calculateMergeTime(pr.merged_at, prov.reviews) ELSE Null,
                 pr_size |-> getPRSizeFromLabels(pr.labels)],
             calls |-> cs]

----------------------------------------------------------------------------
(* Specification SpecPRMetrics: calculatePRMetrics for one pull request,    *)
(* its timeline and its reviews.                                           *)

PRMetricsProviders ==
    [pr : PullRequests, timeline : TimelineResponses, reviews : ReviewsResponses]

InitPRMetrics ==
    /\ options = NoOptions
    /\ files = <<>>
    /\ totalIn = 0
    /\ provider \in PRMetricsProviders
    /\ prMetrics = <<>>
    /\ inputs = NoInputs
    /\ op = "init"
    /\ result = NoResult
    /\ calls = <<>>

CalculatePRMetrics ==
    /\ op = "init"
    /\ op' = "calculatePRMetrics"
    /\ LET r == calculatePRMetrics(provider.pr, provider)
       IN /\ result' = r.result
          /\ calls' = r.calls
    /\ UNCHANGED <<options, files, totalIn, provider, prMetrics, inputs>>

NextPRMetrics == CalculatePRMetrics

SpecPRMetrics == InitPRMetrics /\ [][NextPRMetrics]_vars

----------------------------------------------------------------------------
(* TeamMetricsCollector, the statistics over the analyzed pull requests.    *)
(* An average is kept as the exact quotient [num, den] of hundredths of an *)
(* hour, the merge frequency as the exact quotient of pull requests per    *)
(* developer and week.                                                     *)

\* longest list of analyzed pull requests handed to the statistics
MaxPRs == 3

\* the size categories, as sequences of characters
S_s == <<"s">>
S_m == <<"m">>
S_l == <<"l">>
S_xl == <<"x", "l">>
S_xs == <<"x", "s">>
S_unknown == <<"u", "n", "k", "n", "o", "w", "n">>

Metrics(pickup, approve, merge, merged, author, size) ==
    [pickup_time_hours |-> pickup, approve_time_hours |-> approve,
     merge_time_hours |-> merge, merged |-> merged, author |-> author,
     pr_size |-> size]

PRMetricsValues ==
    { Metrics(Null, Null, Null, FALSE, "ann", NullSize),
      Metrics(0, Null, Null, FALSE, "ann", S_s),
      Metrics(150, 1750, 2000, TRUE, "ann", S_m),
      Metrics(200, -100, 100, TRUE, "bob", S_xl),
      Metrics(700, 100, 0, TRUE, "bob", S_xs),
      Metrics(1700, 5000, Null, TRUE, "ann", S_l),
      Metrics(Null, 2400, 500, TRUE, "bob", S_s),
      Metrics(Null, Null, Null, FALSE, "bob", S_unknown) }

PRMetricsLists == SeqsUpTo(PRMetricsValues, MaxPRs)

TimePeriods == {"weekly", "fortnightly", "monthly"}

TeamOptions == [timePeriod : TimePeriods]

getDaysInPeriod(opts) ==
    CASE opts.timePeriod = "fortnightly" -> 14
      [] opts.timePeriod = "monthly" -> 30
      [] OTHER -> 7

\* the quotient p / q
Quot(p, q) == [num |-> p, den |-> q]

\* x < k, x <= k, x > k and x >= k for a quotient x with a positive
\* denominator and k given in hundredths
Lt(x, k) == 100 * x.num < k * x.den
Le(x, k) == 100 * x.num <= k * x.den
Gt(x, k) == 100 * x.num > k * x.den
Ge(x, k) == 100 * x.num >= k * x.den

\* prMetrics.map((m) => m.<field>).filter((t) => t !== null)
nonNull(values) == SelectSeq(values, LAMBDA t : t # Null)

pickupTimes(ms) == nonNull([i \in 1..Len(ms) |-> ms[i].pickup_time_hours])
approveTimes(ms) == nonNull([i \in 1..Len(ms) |-> ms[i].approve_time_hours])
mergeTimes(ms) == nonNull([i \in 1..Len(ms) |-> ms[i].merge_time_hours])

ratePickupTime(hours) ==
    IF Lt(hours, 200) THEN "Elite"
    ELSE IF Le(hours, 600) THEN "Good"
    ELSE IF Le(hours, 1600) THEN "Fair"
    ELSE "Needs Focus"

rateApproveTime(hours) ==
    IF Lt(hours, 1700) THEN "Elite"
    ELSE IF Le(hours, 2400) THEN "Good"
    ELSE IF Le(hours, 4500) THEN "Fair"
    ELSE "Needs Focus"

rateMergeTime(hours) ==
    IF Lt(hours, 200) THEN "Elite"
    ELSE IF Le(hours, 500) THEN "Good"
    ELSE IF Le(hours, 1900) THEN "Fair"
    ELSE "Needs Focus"

rateMergeFrequency(frequency) ==
    IF Gt(frequency, 160) THEN "Elite"
    ELSE IF Ge(frequency, 110) THEN "Good"
    ELSE IF Ge(frequency, 60) THEN "Fair"
    ELSE "Needs Focus"

ratePRSize(size) ==
    CASE size = S_s -> "Elite"
      [] size = S_m -> "Good"
      [] size = S_l -> "Fair"
      [] size = S_xl -> "Needs Focus"
      [] OTHER -> "Unknown"

\* rating: null
NullRating == "null"

\* The lists of durations whose sum, added up from the left in IEEE-754
\* doubles (times.reduce((a, b) => a + b, 0)), falls short of the exact sum
\* where the average lies on a cut of a rating: 0.6 + 4.8 + 0.6 and
\* 4.8 + 0.6 + 0.6 give 5.999999999999999, an average of 1.9999999999999998,
\* where 0.6 + 0.6 + 4.8 gives 6.  For every other list of the durations of
\* the model the doubles rate and round the average as the exact quotient.
SumsBelowExact == {<<60, 480, 60>>, <<480, 60, 60>>}

\* the average as the rating sees it: the exact quotient of hours, less a
\* fraction below every cut when the sum of the doubles falls short
doubleAverage(times) ==
    Quot(10 * SumSeq(times) - (IF times \in SumsBelowExact THEN 1 ELSE 0),
         1000 * Len(times))

\* one of pickup_time, approve_time, merge_time: the average is null when
\* there is no value, and also when `avg ? ... : null` finds it to be 0
timeStats(times, rate(_)) ==
    LET n == Len(times)
        total == SumSeq(times)
        hasAvg == n > 0 /\ total # 0
    IN [average_hours |-> IF hasAvg THEN RoundDiv(total, n) ELSE Null,
        rating |-> IF hasAvg THEN rate(doubleAverage(times)) ELSE NullRating,
        sample_size |-> n]

\* the number of pull requests of ms whose pr_size falls into the bucket: one
\* of s, m, l, xl for a pull request of that size, unknown for every other
bucketOf(m) == IF m.pr_size \in {S_s, S_m, S_l, S_xl} THEN m.pr_size ELSE S_unknown

sizeCount(ms, bucket) == Len(SelectSeq(ms, LAMBDA m : bucketOf(m) = bucket))

\* the loop over Object.entries(sizes): [predominantSize, maxCount] after the
\* sizes of the list `order` were visited
RECURSIVE predominant(_, _, _)
predominant(ms, order, best) ==
    IF order = <<>> THEN best
    ELSE LET size == Head(order)
             count == sizeCount(ms, size)
         IN IF size # S_unknown /\ count > best.maxCount
            THEN predominant(ms, Tail(order), [predominantSize |-> size, maxCount |-> count])
            ELSE predominant(ms, Tail(order), best)

\* Math.round((count / total) * 100), 0 for an empty list
percentOf(count, total) == IF total > 0 THEN roundPercentage(count, total) ELSE 0

\* calculateSizeDistribution with 'unknown' taking part in the predominant size
calculateSizeDistributionWithUnknown(ms) ==
    LET total == Len(ms)
        counts == [b \in {S_s, S_m, S_l, S_xl, S_unknown} |-> sizeCount(ms, b)]
        top == CHOOSE b \in DOMAIN counts : \A c \in DOMAIN counts : counts[b] >= counts[c]
    IN [small_percent |-> percentOf(counts[S_s], total),
        medium_percent |-> percentOf(counts[S_m], total),
        large_percent |-> percentOf(counts[S_l], total),
        xl_percent |-> percentOf(counts[S_xl], total),
        unknown_percent |-> percentOf(counts[S_unknown], total),
        predominant_size |-> top,
        predominant_rating |-> ratePRSize(top),
        predominant_percent |-> percentOf(counts[top], total)]

calculateSizeDistribution(ms) ==
    LET total == Len(ms)
        best == predominant(ms, <<S_s, S_m, S_l, S_xl, S_unknown>>,
                            [predominantSize |-> S_unknown, maxCount |-> 0])
    IN [small_percent |-> percentOf(sizeCount(ms, S_s), total),
        medium_percent |-> percentOf(sizeCount(ms, S_m), total),
        large_percent |-> percentOf(sizeCount(ms, S_l), total),
        xl_percent |-> percentOf(sizeCount(ms, S_xl), total),
        unknown_percent |-> percentOf(sizeCount(ms, S_unknown), total),
        predominant_size |-> best.predominantSize,
        predominant_rating |-> ratePRSize(best.predominantSize),
        predominant_percent |-> percentOf(best.maxCount, total)]

calculateAggregateStats(opts, ms) ==
    LET mergedCount == Len(SelectSeq(ms, LAMBDA m : m.merged))
        uniqueAuthors == Cardinality({ms[i].author : i \in 1..Len(ms)})
        daysInPeriod == getDaysInPeriod(opts)
        \* mergedCount / (uniqueAuthors * (daysInPeriod / 7))
        mergeFrequency ==
            IF uniqueAuthors > 0 THEN Quot(7 * mergedCount, uniqueAuthors * daysInPeriod)
            ELSE Quot(0, 1)
    IN [pickup_time |-> timeStats(pickupTimes(ms), ratePickupTime),
        approve_time |-> timeStats(approveTimes(ms), rateApproveTime),
        merge_time |-> timeStats(mergeTimes(ms), rateMergeTime),
        merge_frequency |->
            [value |-> RoundDiv(100 * mergeFrequency.num, mergeFrequency.den),
             rating |-> rateMergeFrequency(mergeFrequency),
             merged_prs |-> mergedCount,
             total_prs |-> Len(ms),
             unique_authors |-> uniqueAuthors],
        size_distribution |-> calculateSizeDistribution(ms)]

----------------------------------------------------------------------------
(* Specification SpecAggregate: the statistics over a list of analyzed     *)
(* pull requests.                                                          *)

InitAggregate ==
    /\ options \in TeamOptions
    /\ files = <<>>
    /\ totalIn = 0
    /\ provider = NoProvider
    /\ prMetrics \in PRMetricsLists
    /\ inputs = NoInputs
    /\ op = "init"
    /\ result = NoResult
    /\ calls = <<>>

CalculateAggregateStats ==
    /\ op = "init"
    /\ op' = "calculateAggregateStats"
    /\ result' = calculateAggregateStats(options, prMetrics)
    /\ UNCHANGED <<options, files, totalIn, provider, prMetrics, inputs, calls>>

CalculateSizeDistribution ==
    /\ op = "init"
    /\ op' = "calculateSizeDistribution"
    /\ result' = calculateSizeDistribution(prMetrics)
    /\ UNCHANGED <<options, files, totalIn, provider, prMetrics, inputs, calls>>

NextAggregate == CalculateAggregateStats \/ CalculateSizeDistribution

SpecAggregate == InitAggregate /\ [][NextAggregate]_vars

----------------------------------------------------------------------------
(* Specification SpecOrder: the statistics over the arrangements of one     *)
(* collection of analyzed pull requests.                                    *)

\* four analyzed pull requests
OrderPRs ==
    << Metrics(60, Null, Null, TRUE, "ann", S_s),
       Metrics(60, 100, Null, FALSE, "bob", S_m),
       Metrics(480, 2400, 500, TRUE, "bob", S_m),
       Metrics(Null, Null, Null, TRUE, "ann", S_xl) >>

\* the pull requests of a part of the collection, in every order
Arrangements(prs) ==
    UNION {{[i \in 1..Cardinality(part) |-> prs[f[i]]] :
               f \in {g \in [1..Cardinality(part) -> part] :
                         \A i, j \in 1..Cardinality(part) : g[i] = g[j] => i = j}} :
           part \in SUBSET (1..Len(prs))}

InitOrder ==
    /\ options \in TeamOptions
    /\ files = <<>>
    /\ totalIn = 0
    /\ provider = NoProvider
    /\ prMetrics \in Arrangements(OrderPRs)
    /\ inputs = NoInputs
    /\ op = "init"
    /\ result = NoResult
    /\ calls = <<>>

NextOrder == CalculateAggregateStats

SpecOrder == InitOrder /\ [][NextOrder]_vars

----------------------------------------------------------------------------
(* TeamMetricsCollector.calculateCycleTime.  The repository is a linear     *)
(* history: the commit with sha k is its k-th commit; a release has a tag   *)
(* that points to one commit.  Times are minutes, tag names are numbers.    *)

\* number of commits of the repository
MaxHistory == 3

\* most releases of the repository
MaxReleases == 3

CommitTimes == {10, 100}

ReleaseTimes == {60, 150, 240}

\* commit.committer.date of the commits, in the order of the history
Histories ==
    {h \in [1..MaxHistory -> CommitTimes] :
        \A k \in 1..(MaxHistory - 1) : h[k] <= h[k + 1]}

\* the releases of the repository, oldest first: the i-th has the tag name i
ReleaseFields == [sha : 1..MaxHistory, created_at : ReleaseTimes, draft : BOOLEAN]

RepoReleases ==
    UNION {{[i \in 1..n |-> [tag_name |-> i, sha |-> f[i].sha,
                             created_at |-> f[i].created_at, draft |-> f[i].draft]] :
              f \in {g \in [1..n -> ReleaseFields] :
                        \A i \in 1..(n - 1) :
                           /\ g[i].created_at < g[i + 1].created_at
                           /\ g[i].sha <= g[i + 1].sha}} :
           n \in 0..MaxReleases}

published(rs) == SelectSeq(rs, LAMBDA r : ~r.draft)

\* the published releases created in the window that ends now: the newest ones
Windows(rs) ==
    {SubSeq(published(rs), k, Len(published(rs))) : k \in 1..(Len(published(rs)) + 1)}

WindowResponses(rs) ==
    {[kind |-> "ok", list |-> w] : w \in Windows(rs)}
        \cup {[kind |-> "throw", list |-> <<>>]}

\* what the provider answers to calculateCycleTime in a repository with the
\* releases rs: the window of getReleasesByDateRange, whether the requests of
\* listReleases, compareCommits, the commit listing and getCommit fail, and
\* the tags resolveTag cannot resolve
CycleProviders(rs) ==
    {[history |-> h, releases |-> rs, window |-> w, listReleases |-> l,
      unresolved |-> u, compareCommits |-> c, listCommits |-> lc, getCommit |-> g] :
        h \in Histories, w \in WindowResponses(rs), l \in {"ok", "throw"},
        u \in {{}} \cup {{t} : t \in 1..Len(rs)}, c \in {"ok", "throw"},
        lc \in {"ok", "throw"}, g \in {"ok", "throw"}}

Commit(prov, k) == [sha |-> k, date |-> prov.history[k]]

RECURSIVE insertRelease(_, _)
insertRelease(r, sorted) ==
    IF sorted = <<>> THEN <<r>>
    ELSE IF r.created_at > Head(sorted).created_at THEN <<r>> \o sorted
    ELSE <<Head(sorted)>> \o insertRelease(r, Tail(sorted))

\* .sort((a, b) => new Date(b.created_at) - new Date(a.created_at))
RECURSIVE sortByCreatedAtDesc(_)
sortByCreatedAtDesc(rs) ==
    IF rs = <<>> THEN <<>>
    ELSE insertRelease(rs[Len(rs)], sortByCreatedAtDesc(SubSeq(rs, 1, Len(rs) - 1)))

\* GitHubClient.listReleases: the releases that are no drafts, newest first,
\* and the empty list when the request fails
listReleases(prov) ==
    IF prov.listReleases = "throw" THEN <<>>
    ELSE sortByCreatedAtDesc(SelectSeq(prov.releases, LAMBDA r : ~r.draft))

\* GitHubClient.resolveTag(tagName)?.sha, Null when the tag is not resolved
resolveTag(prov, tagName) ==
    IF tagName \in prov.unresolved THEN Null ELSE prov.releases[tagName].sha

\* compareCommits whose fallback does not say truncated
compareCommitsNotTruncated(prov, base, head) ==
    IF prov.compareCommits = "throw" THEN [truncated |-> FALSE, commits |-> <<>>]
    ELSE [truncated |-> FALSE,
          commits |-> [i \in 1..(head - base) |-> Commit(prov, base + i)]]

\* GitHubClient.compareCommits(base, head): the commits after base up to
\* head, all of them in the response; truncated and none when the request fails
compareCommits(prov, base, head) ==
    IF prov.compareCommits = "throw" THEN [truncated |-> TRUE, commits |-> <<>>]
    ELSE [truncated |-> FALSE,
          commits |-> [i \in 1..(head - base) |-> Commit(prov, base + i)]]

\* GET /repos/{owner}/{repo}/commits with sha: the commit and its ancestors,
\* newest first; the commit alone (getCommit) when the request fails, and
\* nothing when getCommit fails too
firstReleaseCommits(prov, sha) ==
    IF prov.listCommits = "ok" THEN [i \in 1..sha |-> Commit(prov, sha + 1 - i)]
    ELSE IF prov.getCommit = "ok" THEN <<Commit(prov, sha)>>
    ELSE <<>>

\* the commits of one release of the window and the provider calls made for them
commitsOfRelease(prov, allReleases, release, tagSha) ==
    LET releaseIndex == FindIndex(allReleases, LAMBDA r : r.tag_name = release.tag_name)
        hasPrevious == releaseIndex >= 1 /\ releaseIndex < Len(allReleases)
        previousRelease == allReleases[releaseIndex + 1]
        prevSha == resolveTag(prov, previousRelease.tag_name)
    IN IF hasPrevious
       THEN IF prevSha # Null
            THEN [commits |-> compareCommits(prov, prevSha, tagSha).commits,
                  calls |-> <<Call("resolveTag"), Call("compareCommits")>>]
            ELSE [commits |-> <<>>, calls |-> <<Call("resolveTag")>>]
       ELSE [commits |-> firstReleaseCommits(prov, tagSha),
             calls |-> IF prov.listCommits = "ok" THEN <<Call("listCommits")>>
                       ELSE <<Call("listCommits"), Call("getCommit")>>]

\* the loop over the commits of a release: acc.times is allCycleTimes in minutes
RECURSIVE addCycleTimes(_, _, _, _)
addCycleTimes(commits, tagSha, releaseCreatedAt, acc) ==
    IF commits = <<>> THEN acc
    ELSE LET commit == Head(commits)
             cycleTime == releaseCreatedAt - commit.date
             counted == commit.sha # tagSha /\ cycleTime >= 0
         IN addCycleTimes(Tail(commits), tagSha, releaseCreatedAt,
                IF ~counted THEN acc
                ELSE [acc EXCEPT
                        !.times = Append(@, cycleTime),
                        !.oldest = IF @ = Null \/ cycleTime > @ THEN cycleTime ELSE @,
                        !.newest = IF @ = Null \/ cycleTime < @ THEN cycleTime ELSE @])

\* the loop over the releases of the window
RECURSIVE addReleases(_, _, _, _)
addReleases(prov, allReleases, releases, acc) ==
    IF releases = <<>> THEN acc
    ELSE LET release == Head(releases)
             tagSha == resolveTag(prov, release.tag_name)
             found == commitsOfRelease(prov, allReleases, release, tagSha)
         IN addReleases(prov, allReleases, Tail(releases),
                IF tagSha = Null
                THEN [acc EXCEPT !.calls = @ \o <<Call("resolveTag")>>]
                ELSE addCycleTimes(found.commits, tagSha, release.created_at,
                        [acc EXCEPT !.calls = @ \o <<Call("resolveTag")>> \o found.calls]))

NoCycleTime ==
    [cycle_time |-> [avg_hours |-> Null, commit_count |-> 0,
                     oldest_hours |-> Null, newest_hours |-> Null]]

calculateCycleTime(prov) ==
    LET first == <<Call("getReleasesByDateRange")>>
        done == addReleases(prov, listReleases(prov), prov.window.list,
                    [times |-> <<>>, oldest |-> Null, newest |-> Null,
                     calls |-> first \o <<Call("listReleases")>>])
        n == Len(done.times)
    IN IF prov.window.kind = "throw" \/ prov.window.list = <<>>
       THEN [result |-> NoCycleTime, calls |-> first]
       ELSE [result |->
                [cycle_time |->
                    [avg_hours |-> IF n > 0 THEN RoundDiv(5 * SumSeq(done.times), 3 * n)
                                   ELSE Null,
                     commit_count |-> n,
                     oldest_hours |-> IF done.oldest # Null THEN roundHours(done.oldest)
                                      ELSE Null,
                     newest_hours |-> IF done.newest # Null THEN roundHours(done.newest)
                                      ELSE Null]],
             calls |-> done.calls]

----------------------------------------------------------------------------
(* Specification SpecCycleTime: calculateCycleTime for one repository and  *)
(* one window.                                                             *)

InitCycleTime ==
    /\ options = NoOptions
    /\ files = <<>>
    /\ totalIn = 0
    /\ \E rs \in RepoReleases : provider \in CycleProviders(rs)
    /\ prMetrics = <<>>
    /\ inputs = NoInputs
    /\ op = "init"
    /\ result = NoResult
    /\ calls = <<>>

CalculateCycleTime ==
    /\ op = "init"
    /\ op' = "calculateCycleTime"
    /\ LET r == calculateCycleTime(provider)
       IN /\ result' = r.result
          /\ calls' = r.calls
    /\ UNCHANGED <<options, files, totalIn, provider, prMetrics, inputs>>

NextCycleTime == CalculateCycleTime

SpecCycleTime == InitCycleTime /\ [][NextCycleTime]_vars

----------------------------------------------------------------------------
(* TeamMetricsCollector.collectMetrics.  A pull request of the window comes *)
(* with the timeline and the reviews the provider answers for it.           *)

\* most pull requests of the window
MaxWindowPRs == 2

\* start and end of the window, in days before now
getDateRange(opts) == [start |-> getDaysInPeriod(opts), end |-> 0]

\* Math.round((releaseCount / (daysInPeriod / 7)) * 100) / 100, in hundredths
calculateDeployFrequency(opts, prov) ==
    LET releaseCount == Len(prov.window.list)
    IN [result |->
           IF prov.window.kind = "throw"
           THEN [deploy_frequency_days |-> Null, deploy_count |-> 0]
           ELSE [deploy_frequency_days |-> RoundDiv(700 * releaseCount, getDaysInPeriod(opts)),
                 deploy_count |-> releaseCount],
        calls |-> <<Call("getReleasesByDateRange")>>]

countUniqueAuthors(prs) == Cardinality({prs[i].pr.user : i \in 1..Len(prs)})

NoPullRequestsFound == "No pull requests found in the specified time period"

RECURSIVE callsOfAll(_)
callsOfAll(rs) == IF rs = <<>> THEN <<>> ELSE Head(rs).calls \o callsOfAll(Tail(rs))

\* collectMetrics after the check of the pull-request list: the release
\* metrics, the metrics of every pull request and their statistics; calls lists
\* the calls of calculateCycleTime before those of calculateDeployFrequency,
\* which run under one Promise.all
windowMetrics(opts, prov) ==
    LET prs == prov.prs.list
        cycle == calculateCycleTime(prov.cycle)
        deploy == calculateDeployFrequency(opts, prov.cycle)
        each == [i \in 1..Len(prs) |-> calculatePRMetrics(prs[i].pr, prs[i])]
        analyzed == SelectSeq([i \in 1..Len(prs) |-> each[i].result],
                              LAMBDA m : ~IsNullMetrics(m))
    IN [result |->
           [period |-> opts.timePeriod,
            date_range |-> getDateRange(opts),
            total_prs |-> Len(prs),
            analyzed_prs |-> Len(analyzed),
            unique_authors |-> countUniqueAuthors(prs),
            metrics |-> calculateAggregateStats(opts, analyzed),
            dora_metrics |->
                [cycle_time |-> cycle.result.cycle_time,
                 deploy_frequency_days |-> deploy.result.deploy_frequency_days,
                 deploy_count |-> deploy.result.deploy_count]],
        calls |-> <<Call("getPullRequestsByDateRange")>> \o cycle.calls
                      \o deploy.calls \o callsOfAll(each)]

PullRequestsFailed == "getPullRequestsByDateRange failed"

\* collectMetrics without the check of the pull-request list
collectMetricsOfAnyWindow(opts, prov) ==
    IF prov.prs.kind = "throw"
    THEN [result |-> [error |-> PullRequestsFailed, period |-> opts.timePeriod],
          calls |-> <<Call("getPullRequestsByDateRange")>>]
    ELSE windowMetrics(opts, prov)

collectMetrics(opts, prov) ==
    IF prov.prs.kind = "throw"
    THEN [result |-> [error |-> PullRequestsFailed, period |-> opts.timePeriod],
          calls |-> <<Call("getPullRequestsByDateRange")>>]
    ELSE IF prov.prs.kind = "null" \/ prov.prs.list = <<>>
    THEN [result |-> [error |-> NoPullRequestsFound,
                      period |-> opts.timePeriod,
                      date_range |-> getDateRange(opts)],
          calls |-> <<Call("getPullRequestsByDateRange")>>]
    ELSE windowMetrics(opts, prov)

----------------------------------------------------------------------------
(* Specification SpecTeam: collectMetrics for one window.                   *)

\* pull requests of a window with the answers to getPullRequestTimeline and
\* getPullRequestReviews
WindowPRs ==
    { [pr |-> PullRequest(1, "ann", FALSE, MergedAt, <<L_bug, L_size_m>>),
       timeline |-> [kind |-> "ok", list |-> <<Event("reviewed", 20, "User")>>],
       reviews |-> [kind |-> "ok", list |-> <<Review("APPROVED", 120, "User")>>]],
      [pr |-> PullRequest(2, "bob", FALSE, Null, <<>>),
       timeline |-> [kind |-> "ok", list |-> <<>>],
       reviews |-> [kind |-> "ok", list |-> <<>>]],
      [pr |-> PullRequest(3, "ann", TRUE, MergedAt, <<L_Size_XL, L_size_m>>),
       timeline |-> [kind |-> "throw", list |-> <<>>],
       reviews |-> [kind |-> "ok", list |-> <<>>]],
      [pr |-> PullRequest(4, "bob", FALSE, MergedAt, <<L_size_xs>>),
       timeline |-> [kind |-> "ok", list |-> <<Event("ready_for_review", 20, "User")>>],
       reviews |-> [kind |-> "ok",
                    list |-> <<Review("COMMENTED", 60, "User"),
                               Review("APPROVED", 120, "User")>>]] }

PullRequestsResponses ==
    [kind : {"ok"}, list : SeqsUpTo(WindowPRs, MaxWindowPRs)]
        \cup {[kind |-> k, list |-> <<>>] : k \in {"null", "throw"}}

\* repositories without a release, with one and with two releases
WindowRepos ==
    {rs \in RepoReleases :
        \A i \in 1..Len(rs) :
            ~rs[i].draft /\ rs[i].sha = i + 1 /\ rs[i].created_at = 90 * i + 60}

WindowCycleProviders ==
    UNION {{p \in CycleProviders(rs) :
               /\ p.history = [k \in 1..MaxHistory |-> 10]
               /\ p.unresolved = {}
               /\ p.compareCommits = "ok" /\ p.listCommits = "ok" /\ p.getCommit = "ok"} :
           rs \in WindowRepos}

TeamProviders == [prs : PullRequestsResponses, cycle : WindowCycleProviders]

InitTeam ==
    /\ options \in TeamOptions
    /\ files = <<>>
    /\ totalIn = 0
    /\ provider \in TeamProviders
    /\ prMetrics = <<>>
    /\ inputs = NoInputs
    /\ op = "init"
    /\ result = NoResult
    /\ calls = <<>>

CollectMetrics ==
    /\ op = "init"
    /\ op' = "collectMetrics"
    /\ LET r == collectMetrics(options, provider)
       IN /\ result' = r.result
          /\ calls' = r.calls
    /\ UNCHANGED <<options, files, totalIn, provider, prMetrics, inputs>>

NextTeam == CollectMetrics

SpecTeam == InitTeam /\ [][NextTeam]_vars

----------------------------------------------------------------------------
(* run, the entry point of the action: the inputs, their validation and the *)
(* collectors it starts.                                                    *)

BooleanInputs ==
    {"commit-results", "include-merge-commits", "deployment-frequency", "lead-time",
     "pr-size", "pr-maturity", "ignore-line-deletions", "ignore-file-deletions",
     "team-metrics"}

IntegerInputs == {"max-releases", "max-tags"}

MetricInputs == {"deployment-frequency", "lead-time", "pr-size", "pr-maturity", "team-metrics"}

\* core.getInput(name) || default
getInputOr(in, name, default) == IF in[name] = "" THEN default ELSE in[name]

\* the value of a validation: what the validator returns, or what it throws
Returned(value) == [thrown |-> FALSE, value |-> value, message |-> ""]
Thrown(message) == [thrown |-> TRUE, value |-> FALSE, message |-> message]

validateBoolean(value, name) ==
    IF value = "true" THEN Returned(TRUE)
    ELSE IF value = "false" THEN Returned(FALSE)
    ELSE Thrown(name \o " must be 'true' or 'false', got: " \o value)

\* the integer a string of digits with an optional sign stands for
parseInt(value) ==
    CASE value = "100" -> 100
      [] value = "-1" -> -1
      [] OTHER -> NaN

validatePositiveInteger(value, name) ==
    IF parseInt(value) # NaN /\ parseInt(value) > 0 THEN Returned(parseInt(value))
    ELSE Thrown(name \o " must be a positive integer, got: " \o value)

\* the validations of run in the order of the code: input, default, validator
Validations ==
    << <<"commit-results", "true">>, <<"include-merge-commits", "false">>,
       <<"max-releases", "100">>, <<"max-tags", "100">>,
       <<"deployment-frequency", "false">>, <<"lead-time", "false">>,
       <<"pr-size", "false">>, <<"pr-maturity", "false">>,
       <<"ignore-line-deletions", "false">>, <<"ignore-file-deletions", "false">>,
       <<"team-metrics", "false">> >>

validate(in, v) ==
    IF v[1] \in IntegerInputs
    THEN validatePositiveInteger(getInputOr(in, v[1], v[2]), v[1])
    ELSE validateBoolean(getInputOr(in, v[1], v[2]), v[1])

\* the validated value of an input
valueOf(in, name) ==
    validate(in, Validations[CHOOSE i \in 1..Len(Validations) : Validations[i][1] = name]).value

NoMetricEnabled ==
    "At least one metric must be enabled (deployment-frequency, lead-time, pr-size, pr-maturity, or team-metrics)"

\* the message of the first error the validation of the inputs throws, "" if none
validationError(in) ==
    LET thrown == {i \in 1..Len(Validations) : validate(in, Validations[i]).thrown}
        firstThrown == CHOOSE i \in thrown : \A j \in thrown : i <= j
    IN IF thrown # {} THEN validate(in, Validations[firstThrown]).message
       ELSE IF \A name \in MetricInputs : ~valueOf(in, name) THEN NoMetricEnabled
       ELSE ""

\* the pull request number of the context, Null outside a pull request
PRNumbers == {Null, 7}

NoPRContext == "No PR context found - DevEx metrics require a pull request"

NoFields == [name \in {} |-> 0]

\* what DevExMetricsCollector.collectMetrics returns, giving up at the first
\* computation that fails
devexMetricsStoppingAtFailure(enabledMetrics, prNumber, size, maturity) ==
    IF prNumber = Null
    THEN [result |-> [error |-> NoPRContext], calls |-> <<>>]
    ELSE IF enabledMetrics.prSize /\ size.result.size = "unknown"
    THEN [result |-> [error |-> size.result.details.error], calls |-> size.calls]
    ELSE IF enabledMetrics.prMaturity /\ "error" \in DOMAIN maturity.result.details
    THEN [result |-> [error |-> maturity.result.details.error],
          calls |-> (IF enabledMetrics.prSize THEN size.calls ELSE <<>>) \o maturity.calls]
    ELSE [result |->
             [pr_number |-> prNumber,
              metrics |->
                  (IF enabledMetrics.prSize THEN [pr_size |-> size.result] ELSE NoFields)
                  @@ (IF enabledMetrics.prMaturity THEN [pr_maturity |-> maturity.result]
                      ELSE NoFields)],
          calls |-> (IF enabledMetrics.prSize THEN size.calls ELSE <<>>)
                    \o (IF enabledMetrics.prMaturity THEN maturity.calls ELSE <<>>)]

\* what DevExMetricsCollector.collectMetrics returns; size and maturity are
\* what calculatePRSize and calculatePRMaturity yield when they are called
devexMetrics(enabledMetrics, prNumber, size, maturity) ==
    IF prNumber = Null
    THEN [result |-> [error |-> NoPRContext], calls |-> <<>>]
    ELSE [result |->
             [pr_number |-> prNumber,
              metrics |->
                  (IF enabledMetrics.prSize THEN [pr_size |-> size.result] ELSE NoFields)
                  @@ (IF enabledMetrics.prMaturity THEN [pr_maturity |-> maturity.result]
                      ELSE NoFields)],
          calls |-> (IF enabledMetrics.prSize THEN size.calls ELSE <<>>)
                    \o (IF enabledMetrics.prMaturity THEN maturity.calls ELSE <<>>)]

\* DevExMetricsCollector.collectMetrics; prov.size answers the calls of
\* calculatePRSize, prov.maturity those of calculatePRMaturity
collectDevExMetrics(opts, enabledMetrics, prov) ==
    devexMetrics(enabledMetrics, prov.prNumber,
                calculatePRSize(opts, prov.size), calculatePRMaturity(opts, prov.maturity))

\* the result of MetricsCollector.collectMetrics: metrics, or an error
DoraMetrics ==
    [kind |-> "ok",
     metrics |-> [deployment_frequency_days |-> 7,
                  lead_time_for_change |-> [avg_hours |-> 24]]]

DoraError == [kind |-> "error", error |-> "No releases or tags found"]

DoraThrown == [kind |-> "throw", error |-> "Unexpected error"]

DoraResponses == {DoraMetrics, DoraError, DoraThrown}

WriteFailed == "write failed"

\* what run leaves behind: whether setFailed was called and with which
\* message, the warning, and the combined metrics handed to the outputs
Outcome(failed, message, warning, metrics) ==
    [failed |-> failed, message |-> message, warning |-> warning, metrics |-> metrics]

\* the validated inputs of run
validated(in) ==
    [commitResults |-> valueOf(in, "commit-results"),
     enableDeploymentFrequency |-> valueOf(in, "deployment-frequency"),
     enableLeadTime |-> valueOf(in, "lead-time"),
     enablePrSize |-> valueOf(in, "pr-size"),
     enablePrMaturity |-> valueOf(in, "pr-maturity"),
     ignoreLineDeletions |-> valueOf(in, "ignore-line-deletions"),
     ignoreFileDeletions |-> valueOf(in, "ignore-file-deletions"),
     enableTeamMetrics |-> valueOf(in, "team-metrics")]

\* runTeamMetrics after the team collector returned metricsData: the report
\* file, the summary and the outputs, and the commit outside a pull request
teamReport(commitResults, prov, metricsData) ==
    LET cs == <<Call("TeamMetricsCollector.collectMetrics")>> \o metricsData.calls
                  \o <<Call("writeFileSync")>>
    IN IF prov.write = "throw"
       THEN [result |-> Outcome(TRUE, WriteFailed, "", NoFields), calls |-> cs]
       ELSE [result |-> Outcome(FALSE, "", "", [team |-> metricsData.result]),
             calls |-> cs \o <<Call("summary.write")>>
                          \o (IF commitResults /\ prov.prNumber = Null
                              THEN <<Call("git push")>> ELSE <<>>)]

runTeamMetrics(commitResults, prov) ==
    teamReport(commitResults, prov, collectMetrics([timePeriod |-> "weekly"], prov.team))

\* DevExMetricsCollector.addPRLabel: the request that attaches sizeCategory
addPRLabel(sizeCategory) ==
    <<[name |-> "addPRLabel", base |-> 0, head |-> 0, label |-> sizeCategory]>>

\* run after the DevEx collector returned devex (when it was called): the
\* comment and the label, the outputs and the warning
combineMetrics(v, prov, devex) ==
    LET needDoraMetrics == v.enableDeploymentFrequency \/ v.enableLeadTime
        needDevExMetrics == v.enablePrSize \/ v.enablePrMaturity
        doraCalls ==
            IF needDoraMetrics THEN <<Call("MetricsCollector.collectMetrics")>> ELSE <<>>
        combinedError ==
            IF needDoraMetrics /\ prov.dora.kind = "error" THEN prov.dora.error ELSE ""
        doraPart ==
            IF needDoraMetrics
            THEN [dora |-> IF prov.dora.kind = "ok" THEN prov.dora.metrics ELSE NoFields]
            ELSE NoFields
        hasPRSize ==
            /\ "pr_number" \in DOMAIN devex.result
            /\ "pr_size" \in DOMAIN devex.result.metrics
            /\ v.enablePrSize
        devexCalls ==
            IF needDevExMetrics
            THEN <<Call("DevExMetricsCollector.collectMetrics")>> \o devex.calls
                     \o (IF hasPRSize
                         THEN <<Call("createPRComment")>>
                                  \o addPRLabel(devex.result.metrics.pr_size.category)
                         ELSE <<>>)
            ELSE <<>>
        devexPart ==
            IF needDevExMetrics
            THEN [devex |-> IF "metrics" \in DOMAIN devex.result THEN devex.result.metrics
                            ELSE NoFields]
            ELSE NoFields
        cs == doraCalls \o devexCalls \o <<Call("processOutputs")>>
    IN IF needDoraMetrics /\ prov.dora.kind = "throw"
       THEN [result |-> Outcome(TRUE, prov.dora.error, "", NoFields), calls |-> doraCalls]
       ELSE IF prov.write = "throw"
       THEN [result |-> Outcome(TRUE, WriteFailed, "", doraPart @@ devexPart), calls |-> cs]
       ELSE [result |->
                Outcome(FALSE, "",
                        IF combinedError # ""
                        THEN "Metrics collection completed with error: " \o combinedError
                        ELSE "",
                        doraPart @@ devexPart),
             calls |-> cs]

\* run after the validation when the team metrics are off: the DORA
\* collector, the DevEx collector with the comment and the label, the outputs
runCollectors(v, prov) ==
    combineMetrics(v, prov,
        collectDevExMetrics(
            [filesToIgnore |-> <<>>,
             ignoreLineDeletions |-> v.ignoreLineDeletions,
             ignoreFileDeletions |-> v.ignoreFileDeletions],
            [prSize |-> v.enablePrSize, prMaturity |-> v.enablePrMaturity],
            prov))

\* run after the validation of the inputs, message is what the validation threw
validatedRun(message, v, prov) ==
    IF message # ""
    THEN [result |-> Outcome(TRUE, message, "", NoFields), calls |-> <<>>]
    ELSE IF v.enableTeamMetrics THEN runTeamMetrics(v.commitResults, prov)
    ELSE runCollectors(v, prov)

\* run starting the team metrics before it looks at the validation
runTeamBeforeValidation(in, prov) ==
    validatedRun(IF valueOf(in, "team-metrics") THEN "" ELSE validationError(in),
                 validated(in), prov)

run(in, prov) == validatedRun(validationError(in), validated(in), prov)

----------------------------------------------------------------------------
(* Specification SpecRun: one run of the action.                           *)

\* the five metrics switched on or off, every other input left out
SwitchedInputs ==
    {[name \in BooleanInputs \cup IntegerInputs |->
         IF name \in MetricInputs THEN switch[name] ELSE ""] :
       switch \in [MetricInputs -> {"true", "false"}]}

OtherValues(name) ==
    IF name \in IntegerInputs THEN {"100", "-1"}
    ELSE IF name \in MetricInputs THEN {"", "invalid"}
    ELSE {"true", "false", "invalid"}

\* inputs that switch on every metric, the team metrics alone, one DevEx metric
VariedInputs ==
    {in \in SwitchedInputs :
        \/ \A name \in MetricInputs : in[name] = "true"
        \/ \A name \in MetricInputs : in[name] = "true" <=> name = "team-metrics"
        \/ \A name \in MetricInputs : in[name] = "true" <=> name = "pr-size"}

\* the switched inputs, and the varied ones with one input set to another value
RunInputs ==
    SwitchedInputs
        \cup UNION {{[in EXCEPT ![name] = v] : in \in VariedInputs, v \in OtherValues(name)} :
                    name \in BooleanInputs \cup IntegerInputs}

RunSizeProviders ==
    {[pr |-> [kind |-> "ok", created_at |-> 0], files |-> f] :
       f \in {[kind |-> "ok", list |-> <<File(P_a_js, "modified", 60, 40)>>],
              [kind |-> "ok", list |-> <<>>],
              [kind |-> "throw", list |-> <<>>]}}

RunMaturityProviders ==
    {[pr |-> [kind |-> k, created_at |-> IF k = "ok" THEN 0 ELSE NaN],
      commits |-> [kind |-> "ok", list |-> CommitList(<<-60, 60>>)],
      files |-> [kind |-> "ok", list |-> <<File(P_a_js, "modified", 60, 40)>>],
      diff |-> [kind |-> "ok", list |-> <<File(P_a_js, "modified", 40, 0)>>]] :
       k \in {"ok", "throw"}}

RunTeamProviders ==
    {p \in TeamProviders :
        /\ p.cycle.releases = <<>> /\ p.cycle.window.kind = "ok" /\ p.cycle.listReleases = "ok"
        /\ p.prs.kind \in {"ok", "throw"} /\ Len(p.prs.list) <= 1
        /\ \A i \in 1..Len(p.prs.list) : p.prs.list[i].pr.number = 1}

RunProviders ==
    [dora : DoraResponses, prNumber : PRNumbers, size : RunSizeProviders,
     maturity : RunMaturityProviders, team : RunTeamProviders, write : {"ok", "throw"}]

InitRun ==
    /\ options = NoOptions
    /\ files = <<>>
    /\ totalIn = 0
    /\ provider \in RunProviders
    /\ prMetrics = <<>>
    /\ inputs \in RunInputs
    /\ op = "init"
    /\ result = NoResult
    /\ calls = <<>>

Run ==
    /\ op = "init"
    /\ op' = "run"
    /\ LET r == run(inputs, provider)
       IN /\ result' = r.result
          /\ calls' = r.calls
    /\ UNCHANGED <<options, files, totalIn, provider, prMetrics, inputs>>

NextRun == Run

SpecRun == InitRun /\ [][NextRun]_vars

----------------------------------------------------------------------------
(* The maturity level of a percentage: DevExMetricsCollector.getMaturityLevel *)
(* and TeamMetricsCollector.ratePRMaturity.  A percentage is an integer,    *)
(* Null for null and Missing for undefined.                                 *)

MaxPercentage == 100

Percentages == 0..MaxPercentage \cup {Null, Missing}

getMaturityLevel(percentage) ==
    IF percentage = Null \/ percentage = Missing THEN "Unknown"
    ELSE IF percentage >= 90 THEN "Excellent"
    ELSE IF percentage >= 75 THEN "Good"
    ELSE IF percentage >= 50 THEN "Moderate"
    ELSE IF percentage >= 25 THEN "Poor"
    ELSE "Very Poor"

ratePRMaturity(percentage) ==
    IF percentage = Null \/ percentage = Missing THEN "Unknown"
    ELSE IF percentage > 88 THEN "Elite"
    ELSE IF percentage >= 81 THEN "Good"
    ELSE IF percentage >= 75 THEN "Fair"
    ELSE "Needs Focus"

----------------------------------------------------------------------------
(* Specification SpecLevels: the two level functions on one percentage.     *)

InitLevels ==
    /\ options = NoOptions
    /\ files = <<>>
    /\ totalIn \in Percentages
    /\ provider = NoProvider
    /\ prMetrics = <<>>
    /\ inputs = NoInputs
    /\ op = "init"
    /\ result = NoResult
    /\ calls = <<>>

GetMaturityLevel ==
    /\ op = "init"
    /\ op' = "getMaturityLevel"
    /\ result' = [level |-> getMaturityLevel(totalIn)]
    /\ UNCHANGED <<options, files, totalIn, provider, prMetrics, inputs, calls>>

RatePRMaturity ==
    /\ op = "init"
    /\ op' = "ratePRMaturity"
    /\ result' = [level |-> ratePRMaturity(totalIn)]
    /\ UNCHANGED <<options, files, totalIn, provider, prMetrics, inputs, calls>>

NextLevels == GetMaturityLevel \/ RatePRMaturity

SpecLevels == InitLevels /\ [][NextLevels]_vars

----------------------------------------------------------------------------
(* The ratings of the deploy frequency and of the cycle time, and           *)
(* specification SpecRatings: each rating on one value, given in            *)
(* hundredths of an hour or of the frequency.                               *)

rateDeployFrequency(frequency) ==
    IF Gt(frequency, 90) THEN "Elite"
    ELSE IF Ge(frequency, 50) THEN "Good"
    ELSE IF Ge(frequency, 20) THEN "Fair"
    ELSE "Needs Focus"

\* rateCycleTime with the first cut counted as Elite
rateCycleTimeEliteUpTo45(hours) ==
    IF Le(hours, 4500) THEN "Elite"
    ELSE IF Le(hours, 9500) THEN "Good"
    ELSE IF Le(hours, 16900) THEN "Fair"
    ELSE "Needs Focus"

rateCycleTime(hours) ==
    IF Lt(hours, 4500) THEN "Elite"
    ELSE IF Le(hours, 9500) THEN "Good"
    ELSE IF Le(hours, 16900) THEN "Fair"
    ELSE "Needs Focus"

\* the cuts of the six ratings
RatingCuts ==
    {200, 600, 1600, 1700, 2400, 4500, 500, 1900, 9500, 16900, 160, 110, 60, 90, 50, 20}

\* the values next to a cut, zero, a negative and a large one
RatingValues ==
    {c + d : c \in RatingCuts, d \in {-1, 0, 1}} \cup {-100, 0, 99, 20000}

InitRatings ==
    /\ options = NoOptions
    /\ files = <<>>
    /\ totalIn \in RatingValues
    /\ provider = NoProvider
    /\ prMetrics = <<>>
    /\ inputs = NoInputs
    /\ op = "init"
    /\ result = NoResult
    /\ calls = <<>>

RatePickupTime ==
    /\ op = "init"
    /\ op' = "ratePickupTime"
    /\ result' = [rating |-> ratePickupTime(Quot(totalIn, 100))]
    /\ UNCHANGED <<options, files, totalIn, provider, prMetrics, inputs, calls>>

RateApproveTime ==
    /\ op = "init"
    /\ op' = "rateApproveTime"
    /\ result' = [rating |-> rateApproveTime(Quot(totalIn, 100))]
    /\ UNCHANGED <<options, files, totalIn, provider, prMetrics, inputs, calls>>

RateMergeTime ==
    /\ op = "init"
    /\ op' = "rateMergeTime"
    /\ result' = [rating |-> rateMergeTime(Quot(totalIn, 100))]
    /\ UNCHANGED <<options, files, totalIn, provider, prMetrics, inputs, calls>>

RateCycleTime ==
    /\ op = "init"
    /\ op' = "rateCycleTime"
    /\ result' = [rating |-> rateCycleTime(Quot(totalIn, 100))]
    /\ UNCHANGED <<options, files, totalIn, provider, prMetrics, inputs, calls>>

RateMergeFrequency ==
    /\ op = "init"
    /\ op' = "rateMergeFrequency"
    /\ result' = [rating |-> rateMergeFrequency(Quot(totalIn, 100))]
    /\ UNCHANGED <<options, files, totalIn, provider, prMetrics, inputs, calls>>

RateDeployFrequency ==
    /\ op = "init"
    /\ op' = "rateDeployFrequency"
    /\ result' = [rating |-> rateDeployFrequency(Quot(totalIn, 100))]
    /\ UNCHANGED <<options, files, totalIn, provider, prMetrics, inputs, calls>>

NextRatings ==
    \/ RatePickupTime \/ RateApproveTime \/ RateMergeTime \/ RateCycleTime
    \/ RateMergeFrequency \/ RateDeployFrequency

SpecRatings == InitRatings /\ [][NextRatings]_vars

----------------------------------------------------------------------------
(* OutputManager.processOutputs.  prov.write and prov.summary tell whether  *)
(* writeJsonFile and summary.write throw, prov.git is the number of the     *)
(* first git command that fails, 0 when none does.                          *)

GitCommands == <<"config user.name", "config user.email", "add", "commit", "push">>

EventNames == {"push", "schedule", "pull_request", "pull_request_target"}

OutputOptions == [commitResults : BOOLEAN]

OutputProviders ==
    [write : {"ok", "throw"}, summary : {"ok", "throw"}, git : 0..Len(GitCommands)]

GitCall(i) == Call("git " \o GitCommands[i])

\* OutputManager.commitResults: the git commands up to the first that fails;
\* both catch blocks swallow the failure
commitResults(prov) ==
    [i \in 1..(IF prov.git = 0 THEN Len(GitCommands) ELSE prov.git) |-> GitCall(i)]

processOutputs(opts, eventName, prov) ==
    LET written == <<Call("writeJsonFile")>>
        produced == written \o <<Call("setOutput"), Call("summary.write")>>
    IN IF prov.write = "throw"
       THEN [result |-> [thrown |-> TRUE, message |-> WriteFailed], calls |-> written]
       ELSE [result |-> [thrown |-> FALSE, message |-> ""],
             calls |-> IF opts.commitResults /\ eventName # "pull_request"
                       THEN produced \o commitResults(prov)
                       ELSE produced]

----------------------------------------------------------------------------
(* Specification SpecOutputs: processOutputs in one run.                    *)

InitOutputs ==
    /\ options \in OutputOptions
    /\ files = <<>>
    /\ totalIn = 0
    /\ provider \in OutputProviders
    /\ prMetrics = <<>>
    /\ inputs \in [GITHUB_EVENT_NAME : EventNames]
    /\ op = "init"
    /\ result = NoResult
    /\ calls = <<>>

ProcessOutputs ==
    /\ op = "init"
    /\ op' = "processOutputs"
    /\ LET r == processOutputs(options, inputs.GITHUB_EVENT_NAME, provider)
       IN /\ result' = r.result
          /\ calls' = r.calls
    /\ UNCHANGED <<options, files, totalIn, provider, prMetrics, inputs>>

NextOutputs == ProcessOutputs

SpecOutputs == InitOutputs /\ [][NextOutputs]_vars

----------------------------------------------------------------------------
(* The other methods of GitHubClient, each on what its octokit request     *)
(* does, and specification SpecClient: one method against one repository.   *)

\* GitHubClient.listTags: response.data, [] when the request throws
listTags(request) == IF request.kind = "throw" THEN <<>> ELSE request.list

\* GitHubClient.getCommit: response.data, null when the request throws
getCommit(request) == IF request.kind = "throw" THEN Null ELSE request.sha

\* GitHubClient.createPRComment: response.data, null when the request throws
createPRComment(request) == IF request.kind = "throw" THEN Null ELSE request.id

\* GitHubClient.addPRLabel: true, false when the request throws
GitHubClient_addPRLabel(request) == request.kind # "throw"

\* core.warning in the catch block of a method
warningsOf(kind) == IF kind = "throw" THEN <<Call("core.warning")>> ELSE <<>>

\* a repository with the releases rs whose requests all resolve or all throw
ClientProviders(rs) ==
    {[history |-> h, releases |-> rs, listReleases |-> k,
      unresolved |-> IF k = "throw" THEN 1..Len(rs) ELSE {},
      compareCommits |-> k,
      pr |-> [kind |-> k, created_at |-> IF k = "ok" THEN 0 ELSE NaN],
      files |-> [kind |-> k,
                 list |-> IF k = "ok" THEN <<File(P_a_js, "modified", 2, 1)>> ELSE <<>>],
      request |-> [kind |-> k, list |-> <<1, 2>>, sha |-> 1, id |-> 7]] :
        h \in Histories, k \in {"ok", "throw"}}

InitClient ==
    /\ options = NoOptions
    /\ files = <<>>
    /\ totalIn = 0
    /\ \E rs \in RepoReleases : provider \in ClientProviders(rs)
    /\ prMetrics = <<>>
    /\ inputs = NoInputs
    /\ op = "init"
    /\ result = NoResult
    /\ calls = <<>>

\* the method `name` was called: it resolved to value, warning as the request did
Resolved(name, value) ==
    /\ op = "init"
    /\ op' = name
    /\ result' = [value |-> value]
    /\ calls' = warningsOf(provider.request.kind)
    /\ UNCHANGED <<options, files, totalIn, provider, prMetrics, inputs>>

ListReleases == Resolved("listReleases", listReleases(provider))

ListTags == Resolved("listTags", listTags(provider.request))

ResolveTag ==
    \E tagName \in 1..Len(provider.releases) :
        Resolved("resolveTag", resolveTag(provider, tagName))

CompareCommits ==
    \E base \in 1..MaxHistory : \E head \in base..MaxHistory :
        Resolved("compareCommits", compareCommits(provider, base, head))

GetCommit == Resolved("getCommit", getCommit(provider.request))

GetPullRequest == Resolved("getPullRequest", getPullRequest(provider.pr))

GetPullRequestFiles == Resolved("getPullRequestFiles", getPullRequestFiles(provider.files))

CreatePRComment == Resolved("createPRComment", createPRComment(provider.request))

AddPRLabel == Resolved("addPRLabel", GitHubClient_addPRLabel(provider.request))

NextClient ==
    \/ ListReleases \/ ListTags \/ ResolveTag \/ CompareCommits \/ GetCommit
    \/ GetPullRequest \/ GetPullRequestFiles \/ CreatePRComment \/ AddPRLabel

SpecClient == InitClient /\ [][NextClient]_vars

----------------------------------------------------------------------------
(* Specification SpecLabel: the size calculatePRSize computes for a pull    *)
(* request goes onto the pull request as the label of its category, and a   *)
(* later team report reads the label and counts the pull request.          *)

\* the characters of a size category
CategoryName(category) ==
    CASE category = "size/s" -> SizePrefix \o S_s
      [] category = "size/m" -> SizePrefix \o S_m
      [] category = "size/l" -> SizePrefix \o S_l
      [] category = "size/xl" -> SizePrefix \o S_xl
      [] category = "size/xs" -> SizePrefix \o S_xs
      [] category = "size/unknown" -> SizePrefix \o S_unknown

\* calculatePRMetrics' pr_size of a pull request that carries the label of
\* pr_size.category, and the distribution over that one pull request
labelledSize(pr_size) ==
    LET size == getPRSizeFromLabels(<<CategoryName(pr_size.category)>>)
    IN [computed |-> pr_size,
        pr_size |-> size,
        distribution |->
            calculateSizeDistribution(<<Metrics(Null, Null, Null, FALSE, "ann", size)>>)]

CalculatePRSizeAndRead ==
    /\ op = "init"
    /\ op' = "calculateSizeDistribution"
    /\ LET r == calculatePRSize(options, provider)
       IN /\ result' = labelledSize(r.result)
          /\ calls' = r.calls
    /\ UNCHANGED <<options, files, totalIn, provider, prMetrics, inputs>>

\* additions of the one changed file, next to every threshold of categorizePRSize
LabelAdditions == {1, 104, 105, 160, 161, 240, 241}

\* pull requests with no changed file, with one of every size, and failing requests
LabelProviders ==
    {[pr |-> [kind |-> "ok", created_at |-> 0], files |-> f] :
        f \in {[kind |-> "ok", list |-> <<>>], [kind |-> "throw", list |-> <<>>]}
               \cup {[kind |-> "ok", list |-> <<File(P_a_js, "modified", a, 0)>>] :
                         a \in LabelAdditions}}

InitLabel ==
    /\ options \in Options
    /\ files = <<>>
    /\ totalIn = 0
    /\ provider \in LabelProviders
    /\ prMetrics = <<>>
    /\ inputs = NoInputs
    /\ op = "init"
    /\ result = NoResult
    /\ calls = <<>>

NextLabel == CalculatePRSizeAndRead

SpecLabel == InitLabel /\ [][NextLabel]_vars

----------------------------------------------------------------------------
(* The three specifications together.                                      *)

Init == InitFilter \/ InitSize \/ InitMaturity

Next == NextFilter \/ NextSize \/ NextMaturity

Spec == Init /\ [][Next]_vars

----------------------------------------------------------------------------
(* Claims about the file filter and the aggregators (SpecFilter, SpecSize). *)

\* a file the configuration asks to leave out: its path matches an ignore
\* glob, or it is a removed file and ignoreFileDeletions is set
Excluded(opts, file) ==
    \/ shouldIgnore(opts, file)
    \/ opts.ignoreFileDeletions /\ file.status = "removed"

\* the sum of f over the elements of a list, by index
SumOver(fs, f(_)) == SumSeq([i \in 1..Len(fs) |-> f(fs[i])])

AdditionsOf(file) == OrZero(file.additions)
DeletionsOf(file) == OrZero(file.deletions)

\* C1: filterFiles keeps, in their order, exactly the files that neither match
\* an ignore glob nor (with ignoreFileDeletions) are removed, for every
\* configuration, the one with ignoreFileDeletions and no glob included.
C1_FilterRemovesExactlyExcluded ==
    op = "filterFiles" =>
        result.filtered = SelectSeq(files, LAMBDA f : ~Excluded(options, f))

\* C2: calculateDiffSize(files) equals
\* calculateSizeDetails(filterFiles(files)).total_changes for every file list
\* and every configuration.
C2_AggregationPathsAgree ==
    op = "calculateDiffSize" =>
        result.total = calculateSizeDetails(options, filterFiles(options, files)).total_changes

\* C3: calculateSizeDetails returns total_changes = total_additions +
\* total_deletions, total_additions the sum of the additions, total_deletions
\* the sum of the deletions or 0 under ignoreLineDeletions, a missing count as
\* 0, files_changed the number of files, and all zero for the empty list.
C3_SizeDetailsSums ==
    op = "calculateSizeDetails" =>
        /\ result.total_additions = SumOver(files, AdditionsOf)
        /\ result.total_deletions =
              (IF options.ignoreLineDeletions THEN 0 ELSE SumOver(files, DeletionsOf))
        /\ result.total_changes = result.total_additions + result.total_deletions
        /\ options.ignoreLineDeletions => result.total_changes = result.total_additions
        /\ result.files_changed = Len(files)
        /\ files = <<>> =>
              /\ result.total_additions = 0
              /\ result.total_deletions = 0
              /\ result.total_changes = 0
              /\ result.files_changed = 0

\* C3 witness: two files, one without an additions count and one with
\* deletions, aggregated with ignoreLineDeletions set
C3_Witness ==
    /\ op = "calculateSizeDetails"
    /\ options.ignoreLineDeletions
    /\ Len(files) = 2
    /\ files[1].additions = Missing
    /\ files[2].additions = 2
    /\ files[2].deletions = 1
    /\ result.total_changes = 2

\* the order of the size tiers
TierRank(size) ==
    CASE size = "s" -> 1 [] size = "m" -> 2 [] size = "l" -> 3 [] size = "xl" -> 4
      [] OTHER -> 0

----------------------------------------------------------------------------
(* Claims about calculatePRMaturity (SpecMaturity).                        *)

MaturityDone == op = "calculatePRMaturity"

Created == provider.pr.created_at

Commits == provider.commits.list

\* the provider call `name` was made
Requested(name) == \E i \in 1..Len(calls) : calls[i].name = name

\* PR details, commits and changed files were all obtained
Fetched ==
    /\ provider.pr.kind = "ok"
    /\ Created # NaN
    /\ provider.commits.kind = "ok"
    /\ Len(Commits) >= 1
    /\ provider.files.kind # "throw"

\* commit i is dated at or before the creation of the PR, or at most the
\* grace window after it
InGrace(i) == Commits[i].date # NaN /\ Commits[i].date - Created <= GraceMinutes

\* commit i is dated strictly more than the grace window after the creation
BeyondGrace(i) == Commits[i].date # NaN /\ Commits[i].date - Created > GraceMinutes

\* the filtered size of the whole pull request
ExpectedTotal ==
    calculateSizeDetails(options, filterFiles(options, filesOrEmpty(provider))).total_changes

\* the filtered size of the comparison the provider answers with
ExpectedDiff == calculateDiffSize(options, provider.diff.list)

ReasonSingle == "Single commit PR"
ReasonGrace == "All commits within grace period or pre-existing"
ReasonNoSignificant == "No significant commits after PR publication"
ReasonCalculated == "Calculated based on meaningful commits after publication"

IsErrorResult == "error" \in DOMAIN result.details

\* C5: in the calculated branch the first significant commit is the first
\* commit strictly beyond the grace window, the baseline is the commit before
\* it (or the first commit), changes_after_publication is the filtered size of
\* the comparison of the baseline with the last commit, stable_changes is
\* max(0, total_changes - changes_after_publication) and maturity_percentage
\* is 100 * stable_changes / total_changes rounded to the nearest integer.
C5_CalculatedBranch ==
    ( /\ MaturityDone
      /\ Fetched
      /\ Len(Commits) >= 2
      /\ \E i \in 1..Len(Commits) : BeyondGrace(i)
      /\ provider.diff.kind \in {"ok", "nofiles"} ) =>
        LET k == CHOOSE i \in 1..Len(Commits) :
                    BeyondGrace(i) /\ \A j \in 1..(i - 1) : ~BeyondGrace(j)
            b == IF k > 1 THEN k - 1 ELSE 1
            d == result.details
        IN /\ {"reason", "baseline_commit_sha", "first_significant_commit_sha"}
                 \subseteq DOMAIN d
           /\ d.reason = ReasonCalculated
           /\ d.first_significant_commit_sha = Commits[k].sha
           /\ d.baseline_commit_sha = Commits[b].sha
           /\ calls[Len(calls)] = CompareCall(Commits[b].sha, Commits[Len(Commits)].sha)
           /\ d.total_changes = ExpectedTotal
           /\ d.changes_after_publication = ExpectedDiff
           /\ d.stable_changes =
                 (IF d.total_changes >= d.changes_after_publication
                  THEN d.total_changes - d.changes_after_publication ELSE 0)
           /\ d.total_changes > 0 =>
                 /\ 2 * result.maturity_percentage * d.total_changes
                       <= 200 * d.stable_changes + d.total_changes
                 /\ 200 * d.stable_changes + d.total_changes
                       < 2 * (result.maturity_percentage + 1) * d.total_changes

\* C5 without the direction of a half: everything C5 states, with
\* maturity_percentage a nearest integer of 100 * stable_changes / total_changes.
C5_CalculatedBranchNearest ==
    ( /\ MaturityDone
      /\ Fetched
      /\ Len(Commits) >= 2
      /\ \E i \in 1..Len(Commits) : BeyondGrace(i)
      /\ provider.diff.kind \in {"ok", "nofiles"} ) =>
        LET k == CHOOSE i \in 1..Len(Commits) :
                    BeyondGrace(i) /\ \A j \in 1..(i - 1) : ~BeyondGrace(j)
            b == IF k > 1 THEN k - 1 ELSE 1
            d == result.details
        IN /\ {"reason", "baseline_commit_sha", "first_significant_commit_sha"}
                 \subseteq DOMAIN d
           /\ d.reason = ReasonCalculated
           /\ d.first_significant_commit_sha = Commits[k].sha
           /\ d.baseline_commit_sha = Commits[b].sha
           /\ calls[Len(calls)] = CompareCall(Commits[b].sha, Commits[Len(Commits)].sha)
           /\ d.total_changes = ExpectedTotal
           /\ d.changes_after_publication = ExpectedDiff
           /\ d.stable_changes =
                 (IF d.total_changes >= d.changes_after_publication
                  THEN d.total_changes - d.changes_after_publication ELSE 0)
           /\ d.total_changes > 0 =>
                 /\ 2 * result.maturity_percentage * d.total_changes
                       <= 200 * d.stable_changes + d.total_changes
                 /\ 200 * d.stable_changes - d.total_changes
                       <= 2 * result.maturity_percentage * d.total_changes

\* C5 witness: commits at T-1h, T+1h and T+1h, total_changes 100 and a
\* comparison of size 40 from the first commit: stable_changes 60, 60%
C5_Witness ==
    /\ MaturityDone
    /\ ~IsErrorResult
    /\ Len(Commits) = 3
    /\ Commits[1].date = -60
    /\ Commits[2].date = 60
    /\ result.details.reason = ReasonCalculated
    /\ result.details.baseline_commit_sha = 1
    /\ result.details.first_significant_commit_sha = 2
    /\ result.details.total_changes = 100
    /\ result.details.changes_after_publication = 40
    /\ result.details.stable_changes = 60
    /\ result.maturity_percentage = 60

C7_GraceWindow ==
    MaturityDone =>
        /\ ( /\ Fetched
             /\ Len(Commits) >= 2
             /\ \A i \in 1..Len(Commits) : InGrace(i) ) =>
               /\ ~IsErrorResult
               /\ result.maturity_ratio = 1000
               /\ result.maturity_percentage = 100
               /\ result.details.changes_after_publication = 0
               /\ result.details.total_changes = ExpectedTotal
               /\ result.details.stable_changes = result.details.total_changes
               /\ result.details.reason = ReasonGrace
               /\ ~Requested("compareCommitsDiff")
        /\ "commits_after_publication" \in DOMAIN result.details =>
               result.details.commits_after_publication =
                   Cardinality({i \in 1..Len(Commits) : BeyondGrace(i)})

\* C7 witness: a commit before the creation and one exactly 5 minutes after it
C7_Witness ==
    /\ MaturityDone
    /\ ~IsErrorResult
    /\ Len(Commits) = 2
    /\ Commits[1].date = -60
    /\ Commits[2].date = GraceMinutes
    /\ result.details.reason = ReasonGrace
    /\ result.maturity_percentage = 100

\* C8: in every result that is not an error result maturity_ratio is in
\* [0, 1] and maturity_percentage in 0..100, also when the comparison is
\* larger than total_changes; the ratio is 1.0 when total_changes is 0 or the
\* pull request has exactly one commit.
C8_RatioRange ==
    (MaturityDone /\ ~IsErrorResult) =>
        /\ result.maturity_ratio \in 0..1000
        /\ result.maturity_percentage \in 0..100
        /\ (result.details.total_changes = 0 \/ Len(Commits) = 1) =>
               result.maturity_ratio = 1000

\* C8 witness: a comparison of 350 changes in a pull request of 100
C8_Witness ==
    /\ MaturityDone
    /\ ~IsErrorResult
    /\ result.details.total_changes = 100
    /\ result.details.changes_after_publication = 350
    /\ result.details.stable_changes = 0
    /\ result.maturity_ratio = 0
    /\ result.maturity_percentage = 0

\* a provider call that was made has failed
ProviderFailure ==
    \/ provider.pr.kind \in {"null", "throw"}
    \/ /\ Requested("getPullRequestCommits")
       /\ provider.commits.kind \in {"null", "throw"} \/ Commits = <<>>
    \/ Requested("getPullRequestFiles") /\ provider.files.kind = "throw"
    \/ Requested("compareCommitsDiff") /\ provider.diff.kind \in {"null", "throw"}

\* C9: calculatePRMaturity always returns a result; when the PR details are
\* missing, the commit list is missing or empty, the comparison fails or a
\* provider call throws, maturity_ratio and maturity_percentage are null and
\* details carries a non-empty error string.
C9_FailuresYieldErrorResult ==
    MaturityDone =>
        /\ {"maturity_ratio", "maturity_percentage", "details"} \subseteq DOMAIN result
        /\ ProviderFailure =>
              /\ result.maturity_ratio = Null
              /\ result.maturity_percentage = Null
              /\ IsErrorResult
              /\ result.details.error # ""

\* C9 witness: the comparison was requested and came back null
C9_Witness ==
    /\ MaturityDone
    /\ Requested("compareCommitsDiff")
    /\ provider.diff.kind = "null"
    /\ IsErrorResult
    /\ result.details.error = "Could not compare commits for maturity analysis"
    /\ result.maturity_ratio = Null

\* C10, as stated: every result carries a reason tag and the commit hashes.
C10_EveryResultHasReason ==
    MaturityDone =>
        {"reason", "first_commit_sha", "last_commit_sha"} \subseteq DOMAIN result.details

\* the rule that decides a pull request whose data was obtained
ExpectedReason ==
    IF Len(Commits) = 1 THEN ReasonSingle
    ELSE IF \A i \in 1..Len(Commits) : InGrace(i) THEN ReasonGrace
    ELSE IF \E i \in 1..Len(Commits) : BeyondGrace(i) THEN ReasonCalculated
    ELSE ReasonNoSignificant

\* C10, amended: every result that is not an error result carries the reason
\* tag of the rule that produced it and the hashes of the first and the last
\* commit, the calculated result also those of the baseline and of the first
\* significant commit; an error result carries an error string and no reason.
C10_NonErrorResultHasReason ==
    MaturityDone =>
        IF IsErrorResult
        THEN /\ "reason" \notin DOMAIN result.details
             /\ result.maturity_ratio = Null
        ELSE /\ Fetched
             /\ {"reason", "first_commit_sha", "last_commit_sha"}
                   \subseteq DOMAIN result.details
             /\ result.details.reason = ExpectedReason
             /\ result.details.first_commit_sha = Commits[1].sha
             /\ result.details.last_commit_sha = Commits[Len(Commits)].sha
             /\ result.details.reason = ReasonCalculated <=>
                   {"baseline_commit_sha", "first_significant_commit_sha"}
                       \subseteq DOMAIN result.details

\* C10 witness: the third 100% rule decided, with its own reason tag
C10_Witness ==
    /\ MaturityDone
    /\ ~IsErrorResult
    /\ Len(Commits) = 2
    /\ result.details.reason = ReasonNoSignificant
    /\ result.details.first_commit_sha = 1
    /\ result.details.last_commit_sha = 2

----------------------------------------------------------------------------
(* Claims about calculatePRSize (SpecPRSize).                               *)

\* the collector ran over a GitHubClient
SizeDoneWithClient == op = "calculatePRSize(GitHubClient)"

\* the request for the changed files failed
FilesLookupFailed == provider.files.kind = "throw"

\* the result reports the size as unavailable
IsUnknownSize ==
    /\ result.size = "unknown"
    /\ "error" \in DOMAIN result.details
    /\ "total_changes" \notin DOMAIN result.details

\* C11: when the lookup of the changed files fails and the client hands back
\* its failure value, calculatePRSize reports size 'unknown' with an error
\* string, not a size with zero counts.
C11_FailedLookupIsUnknown ==
    (SizeDoneWithClient /\ FilesLookupFailed) => IsUnknownSize

\* the same claim where the provider itself throws (no client in between): holds
C11_ThrownLookupIsUnknown ==
    (op = "calculatePRSize" /\ (provider.pr.kind = "throw" \/ FilesLookupFailed))
        => IsUnknownSize

C11_ThrownWitness ==
    /\ op = "calculatePRSize"
    /\ provider.pr.kind = "ok"
    /\ FilesLookupFailed
    /\ IsUnknownSize

----------------------------------------------------------------------------
(* Claims about the review times of a pull request (SpecPRMetrics).         *)

PRMetricsDone == op = "calculatePRMetrics" /\ ~IsNullMetrics(result)

TimelineEvents == IF provider.timeline.kind = "ok" THEN provider.timeline.list ELSE <<>>

SubmittedReviews ==
    IF provider.reviews.kind = "ok"
    THEN SelectSeq(provider.reviews.list, LAMBDA r : r.submitted_at # Missing)
    ELSE <<>>

MinOf(S) == CHOOSE x \in S : \A y \in S : x <= y
MaxOf(S) == CHOOSE x \in S : \A y \in S : x >= y

\* the time of the ready_for_review event if one exists, the creation time otherwise
ReadyTimes ==
    {TimelineEvents[i].created_at :
        i \in {j \in 1..Len(TimelineEvents) : TimelineEvents[j].event = "ready_for_review"}}

ReadyForReview == IF ReadyTimes # {} THEN MinOf(ReadyTimes) ELSE provider.pr.created_at

ActivityKinds == {"reviewed", "commented", "line-commented"}

\* the times of the review activity of the actors in Types
ActivityTimes(Types) ==
    {TimelineEvents[i].created_at :
        i \in {j \in 1..Len(TimelineEvents) :
                  /\ TimelineEvents[j].event \in ActivityKinds
                  /\ TimelineEvents[j].user \in Types}}
    \cup
    {SubmittedReviews[i].submitted_at :
        i \in {j \in 1..Len(SubmittedReviews) : SubmittedReviews[j].user \in Types}}

HumanActivityTimes == ActivityTimes({"User"})

\* hours, to two decimals, in hundredths
Hundredths(minutes) == RoundDiv(100 * minutes, 60)

C13_WitnessNegative ==
    /\ PRMetricsDone
    /\ HumanActivityTimes # {}
    /\ MinOf(HumanActivityTimes) < ReadyForReview
    /\ result.pickup_time_hours = Null

\* the reviews in the state APPROVED, and the time of the first of them
ApprovalTimes ==
    IF provider.reviews.kind = "ok"
    THEN {provider.reviews.list[i].submitted_at :
            i \in {j \in 1..Len(provider.reviews.list) :
                      provider.reviews.list[j].state = "APPROVED"}}
    ELSE {}

FirstApproval == MinOf(ApprovalTimes)

\* the timeline events of review activity by a non-Bot actor strictly before
\* the first approval
HumanEventsBeforeApproval ==
    {TimelineEvents[i].created_at :
        i \in {j \in 1..Len(TimelineEvents) :
                  /\ TimelineEvents[j].event \in ActivityKinds
                  /\ TimelineEvents[j].user # "Bot"
                  /\ TimelineEvents[j].created_at < FirstApproval}}

\* the timeline events of review activity strictly before the first approval
EventsBeforeApproval ==
    {TimelineEvents[i].created_at :
        i \in {j \in 1..Len(TimelineEvents) :
                  /\ TimelineEvents[j].event \in ActivityKinds
                  /\ TimelineEvents[j].created_at < FirstApproval}}

----------------------------------------------------------------------------
(* Claims about the statistics (SpecAggregate).                             *)

AggregateDone == op = "calculateAggregateStats"

\* the non-null values of a duration over the analyzed pull requests
ValuesOf(field) ==
    SelectSeq([i \in 1..Len(prMetrics) |-> prMetrics[i][field]], LAMBDA t : t # Null)

Ratings == {"Elite", "Good", "Fair", "Needs Focus"}

\* the statistics of one duration are as the claim states them
StatsAsClaimed(stats, values) ==
    /\ stats.sample_size = Len(values)
    /\ Len(values) >= 1 =>
          /\ stats.average_hours = RoundDiv(SumSeq(values), Len(values))
          /\ stats.rating \in Ratings
    /\ (stats.average_hours = Null /\ stats.rating = NullRating) <=> Len(values) = 0
    /\ stats.average_hours = Null <=> stats.rating = NullRating

\* C15: for pickup, approve and merge time, sample_size is the number of
\* non-null values; with at least one value average_hours is their mean to
\* two decimals and rating is one of the four ratings; average_hours and
\* rating are null exactly when sample_size is 0.
C15_AggregateStats ==
    AggregateDone =>
        /\ StatsAsClaimed(result.pickup_time, ValuesOf("pickup_time_hours"))
        /\ StatsAsClaimed(result.approve_time, ValuesOf("approve_time_hours"))
        /\ StatsAsClaimed(result.merge_time, ValuesOf("merge_time_hours"))

\* the same where no average is 0: holds
C15_AggregateStatsNonZero ==
    (/\ AggregateDone
     /\ SumSeq(ValuesOf("pickup_time_hours")) # 0
     /\ SumSeq(ValuesOf("approve_time_hours")) # 0
     /\ SumSeq(ValuesOf("merge_time_hours")) # 0)
        => /\ StatsAsClaimed(result.pickup_time, ValuesOf("pickup_time_hours"))
           /\ StatsAsClaimed(result.approve_time, ValuesOf("approve_time_hours"))
           /\ StatsAsClaimed(result.merge_time, ValuesOf("merge_time_hours"))

DistributionDone == op = "calculateSizeDistribution"

Buckets == {S_s, S_m, S_l, S_xl, S_unknown}

KnownSizes == {S_s, S_m, S_l, S_xl}

\* the pull requests counted in a bucket: those of that size, and in unknown
\* those of no size or of a size that is none of s, m, l, xl
InBucket(b) ==
    {i \in 1..Len(prMetrics) :
        IF b = S_unknown THEN prMetrics[i].pr_size \notin KnownSizes
        ELSE prMetrics[i].pr_size = b}

Share(b) ==
    IF Len(prMetrics) = 0 THEN 0
    ELSE RoundDiv(100 * Cardinality(InBucket(b)), Len(prMetrics))

PercentagesAsClaimed ==
    /\ result.small_percent = Share(S_s)
    /\ result.medium_percent = Share(S_m)
    /\ result.large_percent = Share(S_l)
    /\ result.xl_percent = Share(S_xl)
    /\ result.unknown_percent = Share(S_unknown)

Before(size) ==
    CASE size = S_s -> {}
      [] size = S_m -> {S_s}
      [] size = S_l -> {S_s, S_m}
      [] OTHER -> {S_s, S_m, S_l}

----------------------------------------------------------------------------
(* C17: the commits calculateCycleTime counts.                              *)

CycleDone == op = "calculateCycleTime"

\* the published releases of the repository that are older than the release
OlderReleases(release) ==
    {i \in 1..Len(provider.releases) :
        /\ ~provider.releases[i].draft
        /\ provider.releases[i].created_at < release.created_at}

\* the shas of the compare range from the predecessor, the youngest of the
\* older releases, to the release; every ancestor when there is no older one
RangeOf(release) ==
    IF OlderReleases(release) = {} THEN 1..release.sha
    ELSE LET predecessor ==
                 CHOOSE i \in OlderReleases(release) :
                     \A j \in OlderReleases(release) :
                         provider.releases[j].created_at <= provider.releases[i].created_at
         IN (provider.releases[predecessor].sha + 1)..release.sha

\* without the commit of the tag and without the commits younger than the release
CountedOf(release) ==
    {k \in RangeOf(release) :
        k # release.sha /\ provider.history[k] <= release.created_at}

ExpectedCommitCount ==
    SumSeq([i \in 1..Len(provider.window.list) |->
                Cardinality(CountedOf(provider.window.list[i]))])

CycleTimeAsClaimed ==
    LET c == result.cycle_time
    IN /\ c.commit_count = ExpectedCommitCount
       /\ c.commit_count = 0 =>
              c.avg_hours = Null /\ c.oldest_hours = Null /\ c.newest_hours = Null
       /\ c.commit_count > 0 =>
              /\ c.avg_hours # Null /\ c.oldest_hours # Null /\ c.newest_hours # Null
              /\ c.newest_hours <= c.avg_hours
              /\ c.avg_hours <= c.oldest_hours

\* the window, the tags and the commits of every range are delivered
RangesDelivered ==
    /\ provider.window.kind = "ok"
    /\ provider.unresolved = {}
    /\ provider.compareCommits = "ok"
    /\ provider.listCommits = "ok"

\* C17: when the window, the tags and the commit ranges are delivered,
\* calculateCycleTime counts for every release of the window exactly the
\* commits of the range from its predecessor, without the tag commit and
\* without younger commits, handles a release as a first release only when no
\* older release exists, and newest_hours <= avg_hours <= oldest_hours, all
\* null exactly when commit_count is 0
C17_CycleTimeCommits ==
    (CycleDone /\ RangesDelivered) => CycleTimeAsClaimed

\* C17 holds in the runs in which listReleases delivers the releases too
C17_CycleTimeCommitsWithReleaseList ==
    (CycleDone /\ RangesDelivered /\ provider.listReleases = "ok") => CycleTimeAsClaimed

----------------------------------------------------------------------------
(* C12: collectMetrics on a window without pull requests.                   *)

TeamDone == op = "collectMetrics"

\* getPullRequestsByDateRange answers an empty list or nothing
NoPullRequests ==
    \/ provider.prs.kind = "null"
    \/ provider.prs.kind = "ok" /\ provider.prs.list = <<>>

\* C12: on a window whose pull-request list is empty or missing collectMetrics
\* returns the no-data result, an error with the period and the date range and
\* nothing else (no metrics, no total_prs, no averages), and the only provider
\* call is getPullRequestsByDateRange: no timeline, review or release is fetched
C12_EmptyWindowIsNoData ==
    (TeamDone /\ NoPullRequests) =>
        /\ DOMAIN result = {"error", "period", "date_range"}
        /\ result.error = NoPullRequestsFound
        /\ result.period = options.timePeriod
        /\ result.date_range = getDateRange(options)
        /\ calls = <<Call("getPullRequestsByDateRange")>>

\* an empty pull-request list in a window that has a release
C12_Witness ==
    /\ TeamDone
    /\ provider.prs.kind = "ok" /\ provider.prs.list = <<>>
    /\ provider.cycle.window.kind = "ok" /\ provider.cycle.window.list # <<>>
    /\ "error" \in DOMAIN result

\* a missing pull-request list
C12_WitnessMissing ==
    TeamDone /\ provider.prs.kind = "null" /\ "error" \in DOMAIN result

----------------------------------------------------------------------------
(* C18, C19, C20: the runs of the action.                                   *)

RunDone == op = "run"

Enabled(name) == inputs[name] = "true"

\* the inputs pass the validation
InputsValid ==
    /\ \A name \in BooleanInputs : inputs[name] \in {"", "true", "false"}
    /\ \A name \in IntegerInputs : inputs[name] \in {"", "100"}
    /\ \E name \in MetricInputs : Enabled(name)

NeedDora == Enabled("deployment-frequency") \/ Enabled("lead-time")

NeedDevEx == Enabled("pr-size") \/ Enabled("pr-maturity")

DoraCollected == Requested("MetricsCollector.collectMetrics")

DevExCollected == Requested("DevExMetricsCollector.collectMetrics")

TeamCollected == Requested("TeamMetricsCollector.collectMetrics")

OutputsProcessed == Requested("processOutputs")

\* a run with DORA and DevEx metrics, without team metrics, whose outputs can be written
DoraAndDevExRun ==
    /\ RunDone /\ InputsValid /\ ~Enabled("team-metrics")
    /\ NeedDora /\ NeedDevEx
    /\ provider.write = "ok"

SizeFailed == provider.size.files.kind = "throw"

MaturityFailed == provider.maturity.pr.kind = "throw"

\* in a pull request with both DevEx metrics enabled each of the two is
\* computed whether or not the other one fails
DevExFailuresIsolated ==
    (/\ DevExCollected
     /\ Enabled("pr-size") /\ Enabled("pr-maturity")
     /\ provider.prNumber # Null) =>
        /\ DOMAIN result.metrics.devex = {"pr_size", "pr_maturity"}
        /\ result.metrics.devex.pr_size.size = "unknown" <=> SizeFailed
        /\ result.metrics.devex.pr_maturity.maturity_percentage = Null <=> MaturityFailed

\* C18 as stated: when the DORA collection fails, by an error result or by
\* throwing, the DevEx metrics are still collected, the outputs are still
\* processed and the run does not fail; inside the DevEx collector a failed
\* PR-size computation lets PR maturity be computed, and the reverse
C18_DoraFailureDoesNotStopDevEx ==
    DoraAndDevExRun =>
        /\ provider.dora.kind \in {"error", "throw"} =>
               DevExCollected /\ OutputsProcessed /\ ~result.failed
        /\ DevExFailuresIsolated

\* C18 amended: when the DORA collection returns an error result the DevEx
\* metrics are still collected, the outputs are processed and the run ends
\* with a warning, not failed; when the DORA collector throws, the run is
\* marked failed with the thrown message, without the DevEx collector and
\* without the outputs; inside the DevEx collector a failed PR-size
\* computation lets PR maturity be computed, and the reverse
C18_DoraErrorResultDoesNotStopDevEx ==
    DoraAndDevExRun =>
        /\ provider.dora.kind = "error" =>
               /\ DevExCollected /\ OutputsProcessed /\ ~result.failed
               /\ result.warning =
                      "Metrics collection completed with error: No releases or tags found"
        /\ provider.dora.kind = "throw" =>
               /\ ~DevExCollected /\ ~OutputsProcessed
               /\ result.failed /\ result.message = "Unexpected error"
        /\ DevExFailuresIsolated

\* the DORA collection returns an error and the PR-size computation fails:
\* PR maturity is computed and the outputs are processed
C18_Witness ==
    /\ DoraAndDevExRun
    /\ provider.dora.kind = "error"
    /\ Enabled("pr-size") /\ Enabled("pr-maturity") /\ provider.prNumber # Null
    /\ SizeFailed /\ ~MaturityFailed
    /\ result.metrics.devex.pr_size.size = "unknown"
    /\ result.metrics.devex.pr_maturity.maturity_percentage = 60
    /\ OutputsProcessed

\* the DORA collector throws
C18_WitnessThrown ==
    DoraAndDevExRun /\ provider.dora.kind = "throw" /\ result.failed

\* a run with valid inputs in which no collector throws
ValidRun == RunDone /\ InputsValid /\ provider.dora.kind # "throw"

\* C19: for every combination of the five toggles with at least one set, the
\* DORA collector runs iff deployment-frequency or lead-time is enabled, the
\* DevEx collector iff pr-size or pr-maturity is, and the team collector iff
\* team-metrics is: team-metrics together with another metric collects both
C19_ExactlyEnabledCollected ==
    ValidRun =>
        /\ DoraCollected <=> NeedDora
        /\ DevExCollected <=> NeedDevEx
        /\ TeamCollected <=> Enabled("team-metrics")

\* C19 holds for the runs without team metrics; with team metrics only the
\* team collector runs
C19_TeamMetricsAlone ==
    ValidRun =>
        IF Enabled("team-metrics")
        THEN TeamCollected /\ ~DoraCollected /\ ~DevExCollected
        ELSE /\ ~TeamCollected
             /\ DoraCollected <=> NeedDora
             /\ DevExCollected <=> NeedDevEx

InvalidInputs ==
    {name \in BooleanInputs : inputs[name] \notin {"", "true", "false"}}
        \cup {name \in IntegerInputs : inputs[name] \notin {"", "100"}}

ExpectedMessage(name) ==
    IF name \in IntegerInputs
    THEN name \o " must be a positive integer, got: " \o inputs[name]
    ELSE name \o " must be 'true' or 'false', got: " \o inputs[name]

\* C20: when a boolean or positive-integer input is invalid, or none of the
\* five metrics is enabled, run marks the action as failed with the message of
\* that input or of the missing metric, and makes no call at all: no
\* collector, no provider call, no output file, no comment, no label
C20_ValidationBeforeWork ==
    (RunDone /\ ~InputsValid) =>
        /\ result.failed
        /\ IF InvalidInputs # {}
           THEN \E name \in InvalidInputs : result.message = ExpectedMessage(name)
           ELSE result.message = NoMetricEnabled
        /\ calls = <<>>
        /\ result.metrics = NoFields

\* team-metrics is enabled and commit-results is invalid
C20_Witness ==
    /\ RunDone
    /\ Enabled("team-metrics")
    /\ inputs["commit-results"] = "invalid"
    /\ result.failed
    /\ result.message = "commit-results must be 'true' or 'false', got: invalid"

\* no metric is enabled
C20_WitnessNoMetric ==
    /\ RunDone
    /\ InvalidInputs = {}
    /\ \A name \in MetricInputs : ~Enabled(name)
    /\ result.failed /\ result.message = NoMetricEnabled

\* max-releases is not a positive integer
C20_WitnessInteger ==
    /\ RunDone
    /\ inputs["max-releases"] = "-1"
    /\ result.message = "max-releases must be a positive integer, got: -1"

----------------------------------------------------------------------------
(* C21: the labels of a run.                                                *)

SizeLabels == {"size/xs", "size/s", "size/m", "size/l", "size/xl"}

LabelCalls == {i \in 1..Len(calls) : calls[i].name = "addPRLabel"}

\* the size the run computed, as it is handed to the outputs
ComputedSize == result.metrics.devex.pr_size

\* a label is attached only with pr-size enabled and a pull request number,
\* it is the category of the computed size, and the comment comes first
LabelIsComputedCategory(i) ==
    /\ Enabled("pr-size")
    /\ provider.prNumber # Null
    /\ "devex" \in DOMAIN result.metrics
    /\ "pr_size" \in DOMAIN result.metrics.devex
    /\ calls[i].label = ComputedSize.category
    /\ calls[i].label = "size/" \o ComputedSize.size
    /\ i > 1
    /\ calls[i - 1].name = "createPRComment"

\* C21: every label a run attaches is one of size/xs, size/s, size/m, size/l,
\* size/xl; it is attached only when pr-size is enabled and a pull request
\* number was resolved, it is the category of the computed size, and the size
\* comment is posted before it.
C21_LabelsAreSizeCategories ==
    RunDone =>
        \A i \in LabelCalls : calls[i].label \in SizeLabels /\ LabelIsComputedCategory(i)

\* what holds of every label: the conditions, the computed category and the
\* order, with 'size/unknown' among the labels
C21_LabelsAreComputedCategories ==
    RunDone =>
        \A i \in LabelCalls :
            calls[i].label \in SizeLabels \cup {"size/unknown"} /\ LabelIsComputedCategory(i)

\* a run that attached the label of a size it failed to compute
C21_UnknownLabelAttached ==
    /\ RunDone
    /\ SizeFailed
    /\ \E i \in LabelCalls : calls[i].label = "size/unknown"

----------------------------------------------------------------------------
(* C22: the maturity levels.                                                *)

LevelDone == op \in {"getMaturityLevel", "ratePRMaturity"}

\* the level the README gives a percentage
LevelAsClaimed(p) ==
    IF p = Null \/ p = Missing THEN "Unknown"
    ELSE IF p > 88 THEN "Elite"
    ELSE IF 81 <= p /\ p <= 88 THEN "Good"
    ELSE IF 75 <= p /\ p <= 80 THEN "Fair"
    ELSE "Needs Focus"

\* C22: the level of a percentage p in 0..100 is Elite when p > 88, Good when
\* 81 <= p <= 88, Fair when 75 <= p <= 80, Needs Focus when p < 75 and Unknown
\* for null and undefined, and getMaturityLevel and ratePRMaturity give the
\* same level for every p.
C22_MaturityLevels ==
    LevelDone =>
        /\ result.level = LevelAsClaimed(totalIn)
        /\ getMaturityLevel(totalIn) = ratePRMaturity(totalIn)

\* ratePRMaturity alone gives the claimed levels
C22_RatePRMaturityLevels ==
    op = "ratePRMaturity" => result.level = LevelAsClaimed(totalIn)

\* getMaturityLevel on 89 gives Good where ratePRMaturity gives Elite
C22_LevelsDiffer ==
    /\ op = "getMaturityLevel"
    /\ totalIn = 89
    /\ result.level = "Good"
    /\ ratePRMaturity(totalIn) = "Elite"

----------------------------------------------------------------------------
(* C23: the glob match of an ignore pattern.                                *)

\* the anchored glob match of the claim: '*' any run of characters, '?' one
\* character, every other character itself
RECURSIVE GlobMatches(_, _)
GlobMatches(pattern, path) ==
    IF pattern = <<>> THEN path = <<>>
    ELSE IF Head(pattern) = "*"
         THEN \/ GlobMatches(Tail(pattern), path)
              \/ path # <<>> /\ GlobMatches(pattern, Tail(path))
         ELSE /\ path # <<>>
              /\ Head(pattern) = "?" \/ Head(pattern) = Head(path)
              /\ GlobMatches(Tail(pattern), Tail(path))

EndsWith(path, suffix) ==
    /\ Len(path) >= Len(suffix)
    /\ SubSeq(path, Len(path) - Len(suffix) + 1, Len(path)) = suffix

MatchesSomeGlob(opts, file) ==
    \E i \in 1..Len(opts.filesToIgnore) : GlobMatches(opts.filesToIgnore[i], file.filename)

\* filterFiles under ignore patterns alone
FilteredByGlob ==
    /\ op = "filterFiles"
    /\ Len(options.filesToIgnore) > 0
    /\ ~options.ignoreFileDeletions

\* C23: an ignore pattern is matched as an anchored glob over the whole path:
\* '*' matches any run of characters, '?' exactly one character and every
\* other character, '.' included, only itself; so '*.md' matches a path iff
\* the path ends with '.md'.
C23_GlobMatch ==
    FilteredByGlob =>
        /\ result.filtered = SelectSeq(files, LAMBDA f : ~MatchesSomeGlob(options, f))
        /\ options.filesToIgnore = <<G_star_md>> =>
               result.filtered =
                   SelectSeq(files, LAMBDA f : ~EndsWith(f.filename, <<".", "m", "d">>))

\* what the code matches: the pattern as a regular expression, in which '.'
\* stands for any character
C23_RegexMatch ==
    FilteredByGlob =>
        result.filtered = SelectSeq(files, LAMBDA f : ~shouldIgnore(options, f))

\* '*.md' removed a path that does not end with '.md'
C23_DotMatchesAnyCharacter ==
    /\ FilteredByGlob
    /\ options.filesToIgnore = <<G_star_md>>
    /\ \E i \in 1..Len(files) : files[i].filename = P_amd
    /\ \A i \in 1..Len(result.filtered) : result.filtered[i].filename # P_amd

----------------------------------------------------------------------------
(* C24: the statistics and the order of the pull requests.                  *)

\* the lists with the elements of s in every order
Reorderings(s) == {p \in Arrangements(s) : Len(p) = Len(s)}

\* the statistics without the ratings of the three average durations
WithoutTimeRatings(stats) ==
    [stats EXCEPT !.pickup_time.rating = NullRating,
                  !.approve_time.rating = NullRating,
                  !.merge_time.rating = NullRating]

\* C24: calculateAggregateStats returns the same averages, sample sizes,
\* ratings, merge frequency, size percentages and predominant size for every
\* permutation of the same collection of per-PR metrics.
C24_OrderIndependent ==
    AggregateDone =>
        \A p \in Reorderings(prMetrics) : calculateAggregateStats(options, p) = result

\* what every permutation agrees on: the averages, the sample sizes, the
\* merge frequency and the size distribution
C24_OrderIndependentExceptRatings ==
    AggregateDone =>
        \A p \in Reorderings(prMetrics) :
            WithoutTimeRatings(calculateAggregateStats(options, p)) = WithoutTimeRatings(result)

\* the pickup times 0.6, 0.6 and 4.8 are rated Good in this order and Elite
\* with 4.8 in front
C24_RatingDependsOnOrder ==
    /\ AggregateDone
    /\ pickupTimes(prMetrics) = <<60, 60, 480>>
    /\ result.pickup_time.rating = "Good"
    /\ \E p \in Reorderings(prMetrics) :
           calculateAggregateStats(options, p).pickup_time.rating = "Elite"

----------------------------------------------------------------------------
(* C25: the ratings of the durations and of the frequencies.                *)

\* the band of a duration of h hundredths of an hour: Elite below the first
\* cut, Good up to the second, Fair up to the third
TimeBand(h, elite, good, fair) ==
    IF h < 100 * elite THEN "Elite"
    ELSE IF h <= 100 * good THEN "Good"
    ELSE IF h <= 100 * fair THEN "Fair"
    ELSE "Needs Focus"

\* the band of a frequency of f hundredths: Elite above the first cut, Good
\* from the second, Fair from the third, all in hundredths
FrequencyBand(f, elite, good, fair) ==
    IF f > elite THEN "Elite"
    ELSE IF f >= good THEN "Good"
    ELSE IF f >= fair THEN "Fair"
    ELSE "Needs Focus"

BandAsClaimed(rated, v) ==
    CASE rated = "ratePickupTime" -> TimeBand(v, 2, 6, 16)
      [] rated = "rateApproveTime" -> TimeBand(v, 17, 24, 45)
      [] rated = "rateMergeTime" -> TimeBand(v, 2, 5, 19)
      [] rated = "rateCycleTime" -> TimeBand(v, 45, 95, 169)
      [] rated = "rateMergeFrequency" -> FrequencyBand(v, 160, 110, 60)
      [] rated = "rateDeployFrequency" -> FrequencyBand(v, 90, 50, 20)

\* what the rating `rated` of the code gives the value v
RatingOf(rated, v) ==
    CASE rated = "ratePickupTime" -> ratePickupTime(Quot(v, 100))
      [] rated = "rateApproveTime" -> rateApproveTime(Quot(v, 100))
      [] rated = "rateMergeTime" -> rateMergeTime(Quot(v, 100))
      [] rated = "rateCycleTime" -> rateCycleTime(Quot(v, 100))
      [] rated = "rateMergeFrequency" -> rateMergeFrequency(Quot(v, 100))
      [] rated = "rateDeployFrequency" -> rateDeployFrequency(Quot(v, 100))

TimeRatings == {"ratePickupTime", "rateApproveTime", "rateMergeTime", "rateCycleTime"}

FrequencyRatings == {"rateMergeFrequency", "rateDeployFrequency"}

\* Elite is the best rating, Needs Focus the worst
RatingRank(rating) ==
    CASE rating = "Elite" -> 0
      [] rating = "Good" -> 1
      [] rating = "Fair" -> 2
      [] rating = "Needs Focus" -> 3
      [] OTHER -> 4

\* C25: each rating is defined for every value and is a band function with
\* the tested cuts (pickup 2/6/16, approve 17/24/45, merge 2/5/19, cycle
\* 45/95/169 hours; merge frequency 1.6/1.1/0.6, deploy frequency 0.9/0.5/0.2);
\* a longer time never gets a better rating and a higher frequency never a
\* worse one.
C25_RatingBands ==
    op \in TimeRatings \cup FrequencyRatings =>
        /\ result.rating \in Ratings
        /\ result.rating = BandAsClaimed(op, totalIn)
        /\ \A longer \in RatingValues :
               op \in TimeRatings /\ longer >= totalIn =>
                   RatingRank(RatingOf(op, longer)) >= RatingRank(result.rating)
        /\ \A higher \in RatingValues :
               op \in FrequencyRatings /\ higher >= totalIn =>
                   RatingRank(RatingOf(op, higher)) <= RatingRank(result.rating)

\* a cycle time of exactly 45 hours is rated Good
C25_Witness == op = "rateCycleTime" /\ totalIn = 4500 /\ result.rating = "Good"

----------------------------------------------------------------------------
(* C26: the commit of the results.                                          *)

OutputsDone == op = "processOutputs"

GitCalls == SelectSeq(calls, LAMBDA c : c \in {GitCall(i) : i \in 1..Len(GitCommands)})

PullRequestEvents == {"pull_request", "pull_request_target"}

\* the git commands run after the file, the outputs and the summary, in the
\* order config user.name, config user.email, add, commit, push, up to the
\* first that fails, and processOutputs does not fail
CommittedInOrder ==
    /\ ~result.thrown
    /\ Len(calls) >= 3
    /\ SubSeq(calls, 1, 3) = <<Call("writeJsonFile"), Call("setOutput"), Call("summary.write")>>
    /\ SubSeq(calls, 4, Len(calls)) = GitCalls
    /\ GitCalls = [i \in 1..Len(GitCalls) |-> GitCall(i)]
    /\ Len(GitCalls) = IF provider.git = 0 THEN Len(GitCommands) ELSE provider.git

\* C26: processOutputs runs git commands iff commitResults is true and the
\* run was not triggered by a pull-request event (pull_request or
\* pull_request_target); it commits only after the metrics file was written
\* and the outputs and the summary were produced, in the order config
\* user.name, config user.email, add, commit, push; a failing git command
\* never makes processOutputs fail.
C26_CommitOnlyOutsidePullRequests ==
    OutputsDone /\ provider.write = "ok" =>
        /\ GitCalls # <<>> <=>
               options.commitResults /\ inputs.GITHUB_EVENT_NAME \notin PullRequestEvents
        /\ GitCalls # <<>> => CommittedInOrder

\* what holds: the commit is skipped for the event pull_request alone
C26_CommitOutsidePullRequestEvent ==
    OutputsDone /\ provider.write = "ok" =>
        /\ GitCalls # <<>> <=>
               options.commitResults /\ inputs.GITHUB_EVENT_NAME # "pull_request"
        /\ GitCalls # <<>> => CommittedInOrder

\* a run for pull_request_target that pushed
C26_CommittedOnPullRequestTarget ==
    /\ OutputsDone
    /\ inputs.GITHUB_EVENT_NAME = "pull_request_target"
    /\ GitCall(5) \in {calls[i] : i \in 1..Len(calls)}

----------------------------------------------------------------------------
(* C27: the fallback values of GitHubClient.                                *)

ClientMethods ==
    {"listReleases", "listTags", "resolveTag", "compareCommits", "getCommit",
     "getPullRequest", "getPullRequestFiles", "createPRComment", "addPRLabel"}

RequestFailed == provider.request.kind = "throw"

\* the method resolved to its fixed fallback value
IsFallback ==
    CASE op \in {"listReleases", "listTags"} -> result.value = <<>>
      [] op = "getPullRequestFiles" -> result.value.kind = "ok" /\ result.value.list = <<>>
      [] op \in {"resolveTag", "getCommit", "createPRComment"} -> result.value = Null
      [] op = "getPullRequest" -> result.value.kind = "null"
      [] op = "addPRLabel" -> result.value = FALSE
      [] op = "compareCommits" -> result.value = [truncated |-> TRUE, commits |-> <<>>]

\* the releases that are no drafts, each once, the newest first
NonDraftsNewestFirst(value) ==
    /\ Len(value) = Len(published(provider.releases))
    /\ {value[i] : i \in 1..Len(value)}
           = {provider.releases[i] : i \in {j \in 1..Len(provider.releases) :
                                                ~provider.releases[j].draft}}
    /\ \A i \in 1..Len(value) : \A j \in i..Len(value) :
           value[i].created_at >= value[j].created_at

\* C27: on a request error each method of GitHubClient emits one warning and
\* resolves to its fallback: [] for listReleases, listTags and
\* getPullRequestFiles, null for resolveTag, getCommit, getPullRequest and
\* createPRComment, false for addPRLabel, {truncated: true, commits: []} for
\* compareCommits; listReleases on success returns the non-draft releases,
\* newest first.
C27_FallbackValues ==
    op \in ClientMethods =>
        /\ RequestFailed => IsFallback /\ calls = <<Call("core.warning")>>
        /\ ~RequestFailed => calls = <<>>
        /\ op = "listReleases" /\ ~RequestFailed => NonDraftsNewestFirst(result.value)

\* compareCommits after a failed request
C27_Witness ==
    /\ op = "compareCommits"
    /\ RequestFailed
    /\ result.value.truncated
    /\ calls = <<Call("core.warning")>>

\* listReleases that left out a draft and put a newer release first
C27_WitnessReleases ==
    /\ op = "listReleases"
    /\ ~RequestFailed
    /\ Len(result.value) >= 2
    /\ Len(result.value) < Len(provider.releases)
    /\ result.value[1].created_at > result.value[2].created_at

----------------------------------------------------------------------------
(* C28: the size categories between the two components.                     *)

\* calculatePRSize returned without an error and its label was read
SizeRead == op = "calculateSizeDistribution" /\ result.computed.size # "unknown"

SameSizeRead == CategoryName(result.computed.category) = SizePrefix \o result.pr_size

InKnownBucket ==
    /\ result.distribution.unknown_percent = 0
    /\ result.distribution.small_percent + result.distribution.medium_percent
           + result.distribution.large_percent + result.distribution.xl_percent = 100

\* C28: every size calculatePRSize returns without error, the one of a pull
\* request without changed files included, is read back from its label as
\* the same size and counted in one of the buckets s, m, l, xl, never in
\* 'unknown'.
C28_SizeRoundTrip == SizeRead => SameSizeRead /\ InKnownBucket

\* every size is read back as itself, and all but 'xs' are counted in a
\* known bucket; 'xs' is counted as unknown
C28_SizeRoundTripExceptXs ==
    SizeRead =>
        /\ SameSizeRead
        /\ result.computed.size # "xs" => InKnownBucket
        /\ result.computed.size = "xs" =>
               /\ result.distribution.unknown_percent = 100
               /\ result.distribution.predominant_size = S_unknown

\* a pull request without changed files, counted as unknown
C28_XsCountedUnknown ==
    /\ SizeRead
    /\ provider.files.kind = "ok" /\ provider.files.list = <<>>
    /\ result.computed.category = "size/xs"
    /\ result.pr_size = S_xs
    /\ result.distribution.unknown_percent = 100

\* a pull request of 241 changed lines, counted as xl
C28_XlCounted ==
    SizeRead /\ result.computed.size = "xl" /\ result.distribution.xl_percent = 100

----------------------------------------------------------------------------
(* C29: the sign of the durations of calculatePRMetrics.                    *)

NullOrNonNegative(hours) == hours = Null \/ hours >= 0

\* C29: pickup_time_hours, approve_time_hours and merge_time_hours of
\* calculatePRMetrics are each null or >= 0, for every ordering of the
\* creation, ready-for-review, review-activity, approval and merge timestamps.
C29_DurationsNonNegative ==
    PRMetricsDone =>
        /\ NullOrNonNegative(result.pickup_time_hours)
        /\ NullOrNonNegative(result.approve_time_hours)
        /\ NullOrNonNegative(result.merge_time_hours)

\* the first approval of the pull request, 0 without one
FirstApprovalIndex == FindIndex(reviewsOrEmpty(provider.reviews), isApproval)

ApprovalTime == reviewsOrEmpty(provider.reviews)[FirstApprovalIndex].submitted_at

\* only the pickup time is kept from being negative; the merge time is
\* negative exactly for a merge dated before the first approval
C29_PickupNonNegative ==
    PRMetricsDone =>
        /\ NullOrNonNegative(result.pickup_time_hours)
        /\ result.merge_time_hours # Null =>
               (result.merge_time_hours < 0 <=> provider.pr.merged_at < ApprovalTime)
        /\ result.approve_time_hours # Null /\ result.approve_time_hours < 0 =>
               ApprovalTime < getReadyForReviewTime(provider.pr, provider.pr.created_at,
                                                    provider.timeline)

\* a merge dated before the first approval
C29_NegativeMergeTime ==
    /\ PRMetricsDone
    /\ result.merge_time_hours # Null
    /\ result.merge_time_hours < 0
    /\ provider.pr.merged_at < ApprovalTime

\* an approval dated before the ready-for-review time
C29_NegativeApproveTime ==
    /\ PRMetricsDone
    /\ result.approve_time_hours # Null
    /\ result.approve_time_hours < 0
    /\ result.pickup_time_hours = Null

----------------------------------------------------------------------------
(* C30: the third rule of calculatePRMaturity.                              *)

\* two or more commits, every commit date well-formed
WellFormedCommits ==
    /\ provider.pr.kind = "ok"
    /\ provider.commits.kind = "ok"
    /\ Len(Commits) >= 2
    /\ \A i \in 1..Len(Commits) : Commits[i].date # NaN

\* the grace-window rule matches: every commit is within the window or older
GraceRuleMatches == \A i \in 1..Len(Commits) : withinGracePeriod(Created, Commits[i])

\* C30: for a PR with two or more commits whose timestamps are well-formed,
\* whenever the grace-window rule does not match some commit lies strictly
\* beyond the 5-minute window, so the reason 'No significant commits after PR
\* publication' is not produced and the PR ends in the grace-window result
\* or the calculated result.
C30_ThirdRuleNeverDecides ==
    (MaturityDone /\ WellFormedCommits /\ Created # NaN) =>
        /\ ~GraceRuleMatches => \E i \in 1..Len(Commits) : BeyondGrace(i)
        /\ ~IsErrorResult =>
               /\ result.details.reason # ReasonNoSignificant
               /\ result.details.reason = (IF GraceRuleMatches THEN ReasonGrace
                                           ELSE ReasonCalculated)

\* the same without a well-formed creation time
C30_AnyCreationTime ==
    (MaturityDone /\ WellFormedCommits) =>
        (~IsErrorResult => result.details.reason # ReasonNoSignificant)

\* a commit an hour older than the PR beside one beyond the window: calculated
C30_Witness ==
    /\ MaturityDone
    /\ WellFormedCommits
    /\ Created # NaN
    /\ \E i \in 1..Len(Commits) : Commits[i].date < Created - GraceMinutes
    /\ \E i \in 1..Len(Commits) : BeyondGrace(i)
    /\ ~IsErrorResult
    /\ result.details.reason = ReasonCalculated

====
